---------------------------- MODULE Spec2Model ----------------------------
(***************************************************************************)
(* A model of the CBOR codec of lib/cbor.js: the Generator (pack), the     *)
(* Parser (unpack, in continuation-passing style over a BufferStream), the *)
(* ParseStream adapter and the one-shot exports.unpack over a Readable.    *)
(*                                                                         *)
(* Numbers.  A JavaScript number is an IEEE-754 double; integers up to     *)
(* 2^53 are exact.  The model checker's integers stop at 2^31-1, so a      *)
(* non-negative integer of the program is modelled as its big-endian       *)
(* base-256 digit sequence without leading zeros (0 is <<>>): this is      *)
(* exactly what readUInt*BE / writeUInt*BE convert from and to.            *)
(***************************************************************************)
EXTENDS Integers, Sequences, FiniteSets, TLC

\* ------------------------------------------------------------------------
\* Non-negative integers as big-endian base-256 digit sequences
\* ------------------------------------------------------------------------

Byte == 0..255

RECURSIVE StripZeros(_)
StripZeros(b) ==
  IF b = <<>> THEN <<>>
  ELSE IF Head(b) = 0 THEN StripZeros(Tail(b)) ELSE b

RECURSIVE Mag(_)
\* the digit sequence of a small non-negative integer n
Mag(n) == IF n = 0 THEN <<>> ELSE Append(Mag(n \div 256), n % 256)

RECURSIVE MagVal(_)
\* the integer a digit sequence denotes (used only below 2^31)
MagVal(m) ==
  IF m = <<>> THEN 0 ELSE MagVal(SubSeq(m, 1, Len(m) - 1)) * 256 + m[Len(m)]

RECURSIVE LexLE(_, _)
LexLE(a, b) ==
  IF a = <<>> THEN TRUE
  ELSE IF Head(a) # Head(b) THEN Head(a) < Head(b)
  ELSE LexLE(Tail(a), Tail(b))

\* a <= b on digit sequences
MagLE(a, b) ==
  IF Len(a) # Len(b) THEN Len(a) < Len(b) ELSE LexLE(a, b)

RECURSIVE IncDigits(_)
\* digits + 1, keeping the width; an all-0xff input wraps to zeros
IncDigits(b) ==
  IF b = <<>> THEN <<>>
  ELSE IF b[Len(b)] = 255
       THEN Append(IncDigits(SubSeq(b, 1, Len(b) - 1)), 0)
       ELSE Append(SubSeq(b, 1, Len(b) - 1), b[Len(b)] + 1)

MagInc(m) ==
  IF \A i \in 1..Len(m) : m[i] = 255
  THEN <<1>> \o [i \in 1..Len(m) |-> 0]
  ELSE IncDigits(m)

RECURSIVE DecDigits(_)
DecDigits(b) ==
  IF b[Len(b)] = 0
  THEN Append(DecDigits(SubSeq(b, 1, Len(b) - 1)), 255)
  ELSE Append(SubSeq(b, 1, Len(b) - 1), b[Len(b)] - 1)

\* m - 1, for m > 0
MagDec(m) == StripZeros(DecDigits(m))

\* the w-byte big-endian form of m (m < 256^w)
PadBE(m, w) == [i \in 1..(w - Len(m)) |-> 0] \o m

RECURSIVE BitOr(_, _)
\* a | b on small non-negative integers
BitOr(a, b) ==
  IF a = 0 THEN b
  ELSE IF b = 0 THEN a
  ELSE 2 * BitOr(a \div 2, b \div 2) + (IF a % 2 = 1 \/ b % 2 = 1 THEN 1 ELSE 0)

RECURSIVE Pow2(_)
Pow2(n) == IF n = 0 THEN 1 ELSE 2 * Pow2(n - 1)

RECURSIVE BitsOf(_, _)
\* the w-bit big-endian form of a small integer
BitsOf(n, w) == IF w = 0 THEN <<>> ELSE Append(BitsOf(n \div 2, w - 1), n % 2)

RECURSIVE MagBits(_)
\* all bits of a digit sequence, eight per digit
MagBits(m) == IF m = <<>> THEN <<>> ELSE BitsOf(Head(m), 8) \o MagBits(Tail(m))

RECURSIVE BitsVal(_)
BitsVal(bits) ==
  IF bits = <<>> THEN 0
  ELSE BitsVal(SubSeq(bits, 1, Len(bits) - 1)) * 2 + bits[Len(bits)]

RECURSIVE BitsBytes(_)
\* bytes of a bit sequence whose length is a multiple of 8
BitsBytes(bits) ==
  IF bits = <<>> THEN <<>>
  ELSE <<BitsVal(SubSeq(bits, 1, 8))>> \o BitsBytes(SubSeq(bits, 9, Len(bits)))


\* ------------------------------------------------------------------------
\* JavaScript values
\* ------------------------------------------------------------------------
\* number   [t |-> "num", k |-> "fin", neg, mag, sh]   the value
\*          (-1)^neg * mag / 2^sh, mag a digit sequence, odd when sh > 0;
\*          k |-> "nan" and k |-> "inf" (signed by neg) are the other doubles
\* string   [t |-> "str", s |-> sequence of UTF-16 code units]
\* boolean  [t |-> "bool", b]      null [t |-> "null"]
\* undefined [t |-> "undef"]
\* Array    [t |-> "arr", e |-> sequence of values]
\* Object   [t |-> "obj", p |-> sequence of [key, val]]: the own enumerable
\*          string-keyed properties in Object.keys order (keys distinct)
\* Buffer   [t |-> "buf", d |-> bytes]
\* Unallocated [t |-> "simple", u]
\* Date     [t |-> "date", ms |-> number], or [t |-> "date", iso |-> string]
\*          when built from a string            RegExp [t |-> "regexp", src]
\* Url      [t |-> "url", href]

Fin(neg, mag, sh) == [t |-> "num", k |-> "fin", neg |-> neg, mag |-> mag, sh |-> sh]
NaN == [t |-> "num", k |-> "nan", neg |-> FALSE, mag |-> <<>>, sh |-> 0]
Infinity(neg) == [t |-> "num", k |-> "inf", neg |-> neg, mag |-> <<>>, sh |-> 0]

\* the number with non-negative integer value mag
Nat2Num(mag) == Fin(FALSE, mag, 0)
\* the number -1 - mag
NegNum(mag) == Fin(TRUE, MagInc(mag), 0)
\* the number of a model-checker integer
IntNum(n) == IF n >= 0 THEN Fin(FALSE, Mag(n), 0) ELSE Fin(TRUE, MagInc(Mag(-(n + 1))), 0)

Str(s) == [t |-> "str", s |-> s]
Bool(b) == [t |-> "bool", b |-> b]
Null == [t |-> "null"]
Undefined == [t |-> "undef"]
Arr(e) == [t |-> "arr", e |-> e]
Obj(p) == [t |-> "obj", p |-> p]
Buf(d) == [t |-> "buf", d |-> d]
Prop(key, val) == [key |-> key, val |-> val]

\* typeof
typeof(v) ==
  CASE v.t = "num" -> "number"
    [] v.t = "str" -> "string"
    [] v.t = "bool" -> "boolean"
    [] v.t = "undef" -> "undefined"
    [] OTHER -> "object"

\* obj | 0 : ToInt32.  NaN and the infinities give 0; a finite number is
\* truncated toward zero, reduced modulo 2^32 and read as a signed 32-bit
\* integer.
ToInt32(x) ==
  IF x.k # "fin" THEN Nat2Num(<<>>)
  ELSE
    LET bits == MagBits(x.mag)
        tr   == SubSeq(bits, 1, Len(bits) - x.sh)          \* truncation
        low  == IF Len(tr) >= 32 THEN SubSeq(tr, Len(tr) - 31, Len(tr))
                ELSE [i \in 1..(32 - Len(tr)) |-> 0] \o tr \* modulo 2^32
        u4   == BitsBytes(low)
        u    == StripZeros(u4)
        c    == StripZeros(IncDigits([i \in 1..4 |-> 255 - u4[i]])) \* 2^32 - u
        top  == u4[1] >= 128                                \* u >= 2^31
        half == u4 = <<128, 0, 0, 0>>                       \* u = 2^31
    IN IF u = <<>> THEN Nat2Num(<<>>)
       ELSE IF ~x.neg
            THEN (IF top THEN Fin(TRUE, c, 0) ELSE Nat2Num(u))
            ELSE (IF top /\ ~half THEN Nat2Num(c) ELSE Fin(TRUE, u, 0))

\* isNaN
isNaN(x) == x.k = "nan"

\* a === b on numbers: NaN equals nothing, 0 equals -0
StrictEq(a, b) ==
  /\ a.k # "nan" /\ b.k # "nan"
  /\ \/ a = b
     \/ a.k = "fin" /\ b.k = "fin" /\ a.mag = <<>> /\ b.mag = <<>>

\* obj >= 0
GeZero(x) == x.k # "nan" /\ (~x.neg \/ (x.k = "fin" /\ x.mag = <<>>))

\* num > 255
Gt255(x) ==
  \/ x.k = "inf" /\ ~x.neg
  \/ /\ x.k = "fin" /\ ~x.neg
     /\ LET bits == MagBits(x.mag)
            tr   == SubSeq(bits, 1, Len(bits) - x.sh)         \* integer part
            big  == \E i \in 1..(Len(tr) - 8) : tr[i] = 1     \* 256 or more
            low  == SubSeq(tr, Len(tr) - 7, Len(tr))
        IN big \/ (x.sh > 0 /\ Len(tr) >= 8 /\ BitsVal(low) = 255)

\* new Unallocated(num) without the upper limit
Unallocated_NoUpper(num) ==
  IF typeof(num) # "number"
  THEN [ok |-> FALSE, val |-> Undefined, er |-> "Invalid Unallocated type"]
  ELSE IF ~GeZero(num) \/ ~StrictEq(ToInt32(num), num)
  THEN [ok |-> FALSE, val |-> Undefined, er |-> "num must be a small positive integer"]
  ELSE [ok |-> TRUE, val |-> [t |-> "simple", u |-> MagVal(num.mag)], er |-> ""]

\* new Unallocated(num): the object built, or the Error thrown
Unallocated(num) ==
  IF typeof(num) # "number"
  THEN [ok |-> FALSE, val |-> Undefined, er |-> "Invalid Unallocated type"]
  ELSE IF (num.k # "nan" /\ ~GeZero(num)) \/ Gt255(num) \/ ~StrictEq(ToInt32(num), num)
  THEN [ok |-> FALSE, val |-> Undefined, er |-> "num must be a small positive integer"]
  ELSE [ok |-> TRUE, val |-> [t |-> "simple", u |-> MagVal(num.mag)], er |-> ""]

\* writeDoubleBE: the 8 bytes of the IEEE-754 binary64 form (normal numbers
\* with at most 53 significant bits, zero, NaN, infinities)
DoubleBE(x) ==
  IF x.k = "nan" THEN <<127, 248, 0, 0, 0, 0, 0, 0>>
  ELSE IF x.k = "inf" THEN <<(IF x.neg THEN 255 ELSE 127), 240, 0, 0, 0, 0, 0, 0>>
  ELSE IF x.mag = <<>> THEN <<(IF x.neg THEN 128 ELSE 0), 0, 0, 0, 0, 0, 0, 0>>
  ELSE
    LET all  == MagBits(x.mag)
        lead == CHOOSE i \in 1..Len(all) :
                  all[i] = 1 /\ \A j \in 1..(i - 1) : all[j] = 0
        sig  == SubSeq(all, lead, Len(all))       \* significant bits
        e    == Len(sig) - 1 - x.sh               \* unbiased exponent
        frac == SubSeq(sig, 2, Len(sig))
        man  == SubSeq(frac \o [i \in 1..52 |-> 0], 1, 52)
    IN BitsBytes(<<(IF x.neg THEN 1 ELSE 0)>> \o BitsOf(e + 1023, 11) \o man)

RECURSIVE Utf8Encode(_)
\* the UTF-8 bytes of a string of BMP code units; a lone surrogate is
\* written as U+FFFD
Utf8Encode(s) ==
  IF s = <<>> THEN <<>>
  ELSE LET c == Head(s)
           u == IF c >= 55296 /\ c <= 57343 THEN 65533 ELSE c
       IN (IF u < 128 THEN <<u>>
           ELSE IF u < 2048 THEN <<192 + (u \div 64), 128 + (u % 64)>>
           ELSE <<224 + (u \div 4096), 128 + ((u \div 64) % 64), 128 + (u % 64)>>)
          \o Utf8Encode(Tail(s))

IsCont(b, i) == i <= Len(b) /\ b[i] >= 128 /\ b[i] <= 191

RECURSIVE Utf8Decode(_)
\* buf.toString('utf8') for one-, two- and three-byte sequences; every
\* ill-formed subsequence becomes U+FFFD
Utf8Decode(b) ==
  IF b = <<>> THEN <<>>
  ELSE LET c == Head(b) IN
    IF c < 128 THEN <<c>> \o Utf8Decode(Tail(b))
    ELSE IF c >= 194 /\ c <= 223 /\ IsCont(b, 2)
      THEN <<(c - 192) * 64 + (b[2] - 128)>> \o Utf8Decode(SubSeq(b, 3, Len(b)))
    ELSE IF c >= 224 /\ c <= 239 /\ IsCont(b, 2)
            /\ (c = 224 => b[2] >= 160) /\ (c = 237 => b[2] <= 159)
      THEN IF IsCont(b, 3)
           THEN <<(c - 224) * 4096 + (b[2] - 128) * 64 + (b[3] - 128)>>
                \o Utf8Decode(SubSeq(b, 4, Len(b)))
           ELSE <<65533>> \o Utf8Decode(SubSeq(b, 3, Len(b)))
    ELSE <<65533>> \o Utf8Decode(Tail(b))

\* ------------------------------------------------------------------------
\* Doubles: rounding and scaling
\* ------------------------------------------------------------------------
RECURSIVE StripZeroBits(_)
StripZeroBits(b) ==
  IF b = <<>> THEN <<>>
  ELSE IF Head(b) = 0 THEN StripZeroBits(Tail(b)) ELSE b

RECURSIVE IncBits(_)
\* bits + 1, keeping the width; all ones wrap to zeros
IncBits(b) ==
  IF b = <<>> THEN <<>>
  ELSE IF b[Len(b)] = 1
       THEN Append(IncBits(SubSeq(b, 1, Len(b) - 1)), 0)
       ELSE Append(SubSeq(b, 1, Len(b) - 1), 1)

\* the digit sequence of a bit sequence
BitsMag(bits) ==
  LET pad == (8 - (Len(bits) % 8)) % 8
  IN StripZeros(BitsBytes([i \in 1..pad |-> 0] \o bits))

\* an integer rounded to the 53 significant bits of a double (ties to even)
RoundTo53(bits) ==
  LET sig == StripZeroBits(bits) IN
  IF Len(sig) <= 53 THEN sig
  ELSE LET top  == SubSeq(sig, 1, 53)
           rest == SubSeq(sig, 54, Len(sig))
           half == <<1>> \o [i \in 1..(Len(rest) - 1) |-> 0]
           up   == (rest # half /\ Head(rest) = 1) \/ (rest = half /\ top[53] = 1)
           zero == [i \in 1..Len(rest) |-> 0]
       IN IF ~up THEN top \o zero
          ELSE IF \A i \in 1..53 : top[i] = 1
               THEN <<1>> \o [i \in 1..53 |-> 0] \o zero
               ELSE IncBits(top) \o zero

RECURSIVE TrailingZeros(_)
TrailingZeros(bits) ==
  IF bits = <<>> \/ bits[Len(bits)] = 1 THEN 0
  ELSE 1 + TrailingZeros(SubSeq(bits, 1, Len(bits) - 1))

\* the number (-1)^neg * m * 2^e, m given by its bits
Scaled(neg, mbits, e) ==
  LET sig == StripZeroBits(mbits) IN
  IF sig = <<>> THEN Fin(neg, <<>>, 0)
  ELSE IF e >= 0 THEN Fin(neg, BitsMag(sig \o [i \in 1..e |-> 0]), 0)
  ELSE LET z == TrailingZeros(sig)
           d == IF z < -e THEN z ELSE -e
       IN Fin(neg, BitsMag(SubSeq(sig, 1, Len(sig) - d)), -e - d)

\* ------------------------------------------------------------------------
\* Dates: the time value in milliseconds, obj.getTime() / 1000, obj * 1000
\* ------------------------------------------------------------------------
RECURSIVE MulDigits(_, _, _)
\* m * k + c for a small factor k
MulDigits(m, k, c) ==
  IF m = <<>> THEN Mag(c)
  ELSE LET p == m[Len(m)] * k + c
       IN Append(MulDigits(SubSeq(m, 1, Len(m) - 1), k, p \div 256), p % 256)

RECURSIVE DivDigits(_, _, _)
\* the digits of m \div d for a small divisor d, r the remainder carried in
DivDigits(m, d, r) ==
  IF m = <<>> THEN <<>>
  ELSE <<(r * 256 + Head(m)) \div d>> \o DivDigits(Tail(m), d, (r * 256 + Head(m)) % d)

RECURSIVE RemDigits(_, _, _)
RemDigits(m, d, r) == IF m = <<>> THEN r ELSE RemDigits(Tail(m), d, (r * 256 + Head(m)) % d)

\* x / 1000 for an integer x below 2^53 in size: the quotient of x * 2^64
\* by 1000 with a sticky bit for the remainder, rounded to 53 bits
Div1000(x) ==
  IF x.k # "fin" \/ x.mag = <<>> THEN x
  ELSE LET n    == x.mag \o [i \in 1..8 |-> 0]
           q    == MagBits(DivDigits(n, 1000, 0))
           st   == IF RemDigits(n, 1000, 0) = 0 THEN 0 ELSE 1
       IN Scaled(x.neg, RoundTo53(Append(q, st)), -65)

\* x * 1000, rounded to 53 bits
Times1000(x) ==
  IF x.k # "fin" \/ x.mag = <<>> THEN x
  ELSE Scaled(x.neg, RoundTo53(MagBits(MulDigits(x.mag, 1000, 0))), 0 - x.sh)

\* 8.64e15, the largest time value
MaxTime == <<30, 178, 8, 194, 220, 0, 0>>

\* TimeClip: NaN beyond +-8.64e15, else the value truncated to an integer
TimeClip(v) ==
  IF v.k # "fin" THEN NaN
  ELSE LET bits == MagBits(v.mag)
           tr   == BitsMag(SubSeq(bits, 1, Len(bits) - v.sh))
       IN IF ~MagLE(tr, MaxTime) \/ (tr = MaxTime /\ v.sh > 0) THEN NaN
          ELSE Fin(v.neg /\ tr # <<>>, tr, 0)

\* new Date(value) for a number; an Invalid Date has the time value NaN
NewDate(v) == [t |-> "date", ms |-> TimeClip(v)]

\* ------------------------------------------------------------------------
\* Generator
\* ------------------------------------------------------------------------
\* The bytes a pack call has written, or the exception it raised.
Ok(b) == [ok |-> TRUE, b |-> b, er |-> ""]
Raise(er) == [ok |-> FALSE, b |-> <<>>, er |-> er]
\* r, then s: an exception ends the call
Then(r, s) == IF ~r.ok THEN r ELSE IF ~s.ok THEN s ELSE Ok(r.b \o s.b)

\* the operand thresholds of _packInt
Inline == 27
OneByte == 255
TwoBytes == 65535
FourBytes == <<127, 255, 255, 255>>     \* 0x7fffffff

\* _packInt with the inline form ending at 23 instead of 0x1b
_packInt_Inline23(i, mt) ==
  LET m == mt * 32 IN
  IF MagLE(i, Mag(23)) THEN Ok(<<BitOr(m, MagVal(i))>>)
  ELSE IF MagLE(i, Mag(OneByte)) THEN Ok(<<BitOr(m, 28)>> \o PadBE(i, 1))
  ELSE IF MagLE(i, Mag(TwoBytes)) THEN Ok(<<BitOr(m, 29)>> \o PadBE(i, 2))
  ELSE IF MagLE(i, FourBytes) THEN Ok(<<BitOr(m, 30)>> \o PadBE(i, 4))
  ELSE Raise("Integer out of range")

_packInt(i, mt) ==
  LET m == mt * 32 IN                    \* mt << 5
  IF MagLE(i, Mag(Inline)) THEN Ok(<<BitOr(m, MagVal(i))>>)
  ELSE IF MagLE(i, Mag(OneByte)) THEN Ok(<<BitOr(m, 28)>> \o PadBE(i, 1))
  ELSE IF MagLE(i, Mag(TwoBytes)) THEN Ok(<<BitOr(m, 29)>> \o PadBE(i, 2))
  ELSE IF MagLE(i, FourBytes) THEN Ok(<<BitOr(m, 30)>> \o PadBE(i, 4))
  ELSE Raise("Integer out of range")

\* _packNumber testing for an integral value instead of obj === (obj|0)
_packNumber_Integral(obj) ==
  IF obj.k = "fin" /\ obj.sh = 0
  THEN IF GeZero(obj)
       THEN _packInt(obj.mag, 0)
       ELSE _packInt(MagDec(obj.mag), 1)
  ELSE Then(Ok(<<223>>), Ok(DoubleBE(obj)))

_packNumber(obj) ==
  IF ~isNaN(obj) /\ StrictEq(obj, ToInt32(obj))
  THEN IF GeZero(obj)
       THEN _packInt(obj.mag, 0)
       ELSE _packInt(MagDec(obj.mag), 1)         \* -obj-1
  ELSE Then(Ok(<<223>>), Ok(DoubleBE(obj)))      \* 0xdf, writeDoubleBE

\* the registry Generator() starts from: type, packer
semanticTypes ==
  << [type |-> "Array",        fun |-> "_packArray"],
     [type |-> "Date",         fun |-> "_packDate"],
     [type |-> "Buffer",       fun |-> "_packBuffer"],
     [type |-> "BufferStream", fun |-> "_packBufferStream"],
     [type |-> "RegExp",       fun |-> "_packRegexp"],
     [type |-> "Unallocated",  fun |-> "Unallocated.pack"] >>

\* obj instanceof type
instanceof(obj, type) ==
  \/ type = "Array" /\ obj.t = "arr"
  \/ type = "Date" /\ obj.t = "date"
  \/ type = "Buffer" /\ obj.t = "buf"
  \/ type = "BufferStream" /\ obj.t = "bufstream"
  \/ type = "RegExp" /\ obj.t = "regexp"
  \/ type = "Unallocated" /\ obj.t = "simple"
  \/ type = "Foo" /\ obj.t = "foo"          \* a class of the application
  \/ type = "Object"                        \* every object is an Object

RECURSIVE unsafePack(_, _)
RECURSIVE _packElems(_, _)
RECURSIVE _packProps(_, _)

\* the loop of _packArray
_packElems(reg, e) ==
  IF e = <<>> THEN Ok(<<>>)
  ELSE Then(unsafePack(reg, Head(e)), _packElems(reg, Tail(e)))

_packArray(reg, obj) ==
  Then(_packInt(Mag(Len(obj.e)), 4), _packElems(reg, obj.e))

\* _packDate writing the initial byte of tag 12 (0xec)
_packDate_Tag12(reg, obj) == Then(Ok(<<236>>), unsafePack(reg, Div1000(obj.ms)))

_packDate(reg, obj) == Then(Ok(<<235>>), unsafePack(reg, Div1000(obj.ms)))

\* _packBuffer framing the bytes as text (major type 3)
_packBuffer_AsText(reg, obj) == Then(_packInt(Mag(Len(obj.d)), 3), Ok(obj.d))

_packBuffer(reg, obj) == Then(_packInt(Mag(Len(obj.d)), 2), Ok(obj.d))

_packBufferStream(reg, obj) == Then(_packInt(Mag(Len(obj.d)), 2), Ok(obj.d))

_packRegexp(reg, obj) == Then(Ok(<<247>>), unsafePack(reg, Str(obj.src)))

Unallocated_pack(reg, obj) == _packInt(Mag(obj.u), 6)

\* the key loop of _packObject
_packProps(reg, p) ==
  IF p = <<>> THEN Ok(<<>>)
  ELSE Then(Then(unsafePack(reg, Str(Head(p).key)), unsafePack(reg, Head(p).val)),
            _packProps(reg, Tail(p)))

\* packers an application registers; each writes one byte of its own
UserPackers == {"f1", "f2"}
UserPack(f, reg, obj) == Ok(<<IF f = "f1" THEN 193 ELSE 194>>)

\* the loop of _packObject: the packer of the first entry obj is an
\* instance of, "" when there is none
Dispatch(reg, obj) ==
  LET hits == {i \in 1..Len(reg) : instanceof(obj, reg[i].type)} IN
  IF hits = {} THEN "" ELSE reg[CHOOSE i \in hits : \A j \in hits : i <= j].fun

_packObject(reg, obj) ==
  LET f == Dispatch(reg, obj) IN
  CASE f = "_packArray" -> _packArray(reg, obj)
    [] f = "_packDate" -> _packDate(reg, obj)
    [] f = "_packBuffer" -> _packBuffer(reg, obj)
    [] f = "_packBufferStream" -> _packBufferStream(reg, obj)
    [] f = "_packRegexp" -> _packRegexp(reg, obj)
    [] f = "Unallocated.pack" -> Unallocated_pack(reg, obj)
    [] f \in UserPackers -> UserPack(f, reg, obj)
    [] f = "" -> Then(_packInt(Mag(Len(obj.p)), 5), _packProps(reg, obj.p))

\* addSemanticType appending without looking for the type
addSemanticType_Append(r, type, fun) ==
  [reg |-> Append(r, [type |-> type, fun |-> fun]), old |-> "null"]

\* addSemanticType(type, fun) on the registry r: the registry it leaves and
\* the value it returns
addSemanticType(r, type, fun) ==
  LET at == {i \in 1..Len(r) : r[i].type = type} IN
  IF at # {}
  THEN LET i == CHOOSE i \in at : \A j \in at : i <= j IN
       [reg |-> [r EXCEPT ![i].fun = fun], old |-> r[i].fun]
  ELSE [reg |-> Append(r, [type |-> type, fun |-> fun]), old |-> "null"]

unsafePack(reg, obj) ==
  CASE typeof(obj) = "number" -> _packNumber(obj)
    [] typeof(obj) = "string" ->
         LET u == Utf8Encode(obj.s) IN Then(_packInt(Mag(Len(u)), 3), Ok(u))
    [] typeof(obj) = "boolean" -> Ok(<<IF obj.b THEN 217 ELSE 216>>)
    [] typeof(obj) = "undefined" -> Ok(<<219>>)
    [] typeof(obj) = "object" ->
         IF obj.t = "null" THEN Ok(<<218>>) ELSE _packObject(reg, obj)

\* exports.pack(obj): a fresh Generator, a fresh BufferStream, flatten
pack(obj) == unsafePack(semanticTypes, obj)

\* ------------------------------------------------------------------------
\* Parser: number decoding
\* ------------------------------------------------------------------------
\* _unpackInt reading the two-byte operand little-endian
_unpackInt_LE16(ai, buf) ==
  CASE ai = 28 -> StripZeros(buf)
    [] ai = 29 -> StripZeros(<<buf[2], buf[1]>>)
    [] ai = 30 -> StripZeros(buf)
    [] ai = 31 -> BitsMag(RoundTo53(MagBits(buf)))

\* the operand carried by the 1, 2, 4 or 8 bytes after the initial byte
_unpackInt(ai, buf) ==
  CASE ai = 28 -> StripZeros(buf)                      \* readUInt8
    [] ai = 29 -> StripZeros(buf)                      \* readUInt16BE
    [] ai = 30 -> StripZeros(buf)                      \* readUInt32BE
    [] ai = 31 -> BitsMag(RoundTo53(MagBits(buf)))     \* f * 2^32 + g

\* _unpackHalf scaling normal numbers by 2^(exp-24)
_unpackHalf_Exp24(buf) ==
  LET bits == MagBits(buf)
      neg  == bits[1] = 1
      exp  == BitsVal(SubSeq(bits, 2, 6))
      mant == SubSeq(bits, 7, 16)
  IN IF exp = 0 THEN Scaled(neg, mant, -24)
     ELSE IF exp = 31
          THEN (IF BitsVal(mant) # 0 THEN NaN ELSE Infinity(neg))
          ELSE Scaled(neg, <<1>> \o mant, exp - 24)

_unpackHalf(buf) ==
  LET bits == MagBits(buf)
      neg  == bits[1] = 1                               \* buf[0] & 0x80
      exp  == BitsVal(SubSeq(bits, 2, 6))               \* (buf[0] & 0x7C) >> 2
      mant == SubSeq(bits, 7, 16)                       \* low 10 bits
  IN IF exp = 0 THEN Scaled(neg, mant, -24)
     ELSE IF exp = 31
          THEN (IF BitsVal(mant) # 0 THEN NaN ELSE Infinity(neg))
          ELSE Scaled(neg, <<1>> \o mant, exp - 25)     \* 1024 + mant

\* readFloatBE / readDoubleBE: ew exponent bits, fw fraction bits
ReadIEEE(buf, ew, fw) ==
  LET bits == MagBits(buf)
      neg  == bits[1] = 1
      exp  == BitsVal(SubSeq(bits, 2, 1 + ew))
      frac == SubSeq(bits, 2 + ew, 1 + ew + fw)
      bias == Pow2(ew - 1) - 1
  IN IF exp = Pow2(ew) - 1
     THEN (IF StripZeroBits(frac) # <<>> THEN NaN ELSE Infinity(neg))
     ELSE IF exp = 0 THEN Scaled(neg, frac, 1 - bias - fw)
     ELSE Scaled(neg, <<1>> \o frac, exp - bias - fw)

\* ------------------------------------------------------------------------
\* Parser: property keys of the decoded map
\* ------------------------------------------------------------------------
RECURSIVE Div10(_, _)
Div10(m, r) ==
  IF m = <<>> THEN <<>>
  ELSE <<(r * 256 + Head(m)) \div 10>> \o Div10(Tail(m), (r * 256 + Head(m)) % 10)

RECURSIVE Rem10(_, _)
Rem10(m, r) == IF m = <<>> THEN r ELSE Rem10(Tail(m), (r * 256 + Head(m)) % 10)

RECURSIVE Decimal(_)
\* the decimal digits (as code units) of a positive integer
Decimal(m) ==
  IF m = <<>> THEN <<>>
  ELSE Append(Decimal(StripZeros(Div10(m, 0))), 48 + Rem10(m, 0))

\* "__proto__"
PROTO == <<95, 95, 112, 114, 111, 116, 111, 95, 95>>

RECURSIVE ToPropertyKey(_)
RECURSIVE Join(_)
\* Array.prototype.join(","): null and undefined elements print as ""
Join(e) ==
  IF e = <<>> THEN <<>>
  ELSE (IF Head(e).t \in {"null", "undef"} THEN <<>> ELSE ToPropertyKey(Head(e)))
       \o (IF Len(e) > 1 THEN <<44>> \o Join(Tail(e)) ELSE <<>>)

\* String(v), the property key res[v] uses (integers, not-a-number,
\* infinities, strings, booleans, null, undefined, Buffers, Unallocated,
\* arrays and plain objects)
ToPropertyKey(v) ==
  CASE v.t = "str" -> v.s
    [] v.t = "num" /\ v.k = "nan" -> <<78, 97, 78>>
    [] v.t = "num" /\ v.k = "inf" ->
         (IF v.neg THEN <<45>> ELSE <<>>) \o <<73, 110, 102, 105, 110, 105, 116, 121>>
    [] v.t = "num" /\ v.k = "fin" /\ v.sh = 0 ->
         IF v.mag = <<>> THEN <<48>>
         ELSE (IF v.neg THEN <<45>> ELSE <<>>) \o Decimal(v.mag)
    [] v.t = "bool" -> IF v.b THEN <<116, 114, 117, 101>> ELSE <<102, 97, 108, 115, 101>>
    [] v.t = "null" -> <<110, 117, 108, 108>>
    [] v.t = "undef" -> <<117, 110, 100, 101, 102, 105, 110, 101, 100>>
    [] v.t = "buf" -> Utf8Decode(v.d)
    [] v.t = "simple" ->
         <<85, 110, 97, 108, 108, 111, 99, 97, 116, 101, 100, 45>>
         \o (IF v.u = 0 THEN <<48>> ELSE Decimal(Mag(v.u)))
    [] v.t = "arr" -> Join(v.e)
    [] v.t = "obj" ->
         <<91, 111, 98, 106, 101, 99, 116, 32, 79, 98, 106, 101, 99, 116, 93>>

\* a canonical array index "0", "1", ... : such keys enumerate first, ascending
IsIndex(name) ==
  /\ name # <<>>
  /\ \A i \in 1..Len(name) : name[i] >= 48 /\ name[i] <= 57
  /\ (Len(name) > 1 => name[1] # 48)
  /\ Len(name) <= 9

\* key order of an ordinary object: a before b
KeyBefore(a, b) ==
  IF IsIndex(a) /\ IsIndex(b) THEN a # b /\ MagLE(a, b)
  ELSE IsIndex(a) /\ ~IsIndex(b)

\* res[key] = val on an object created by {}
SetProp(res, key, val) ==
  LET name == ToPropertyKey(key)
      p    == res.p
      at   == {i \in 1..Len(p) : p[i].key = name}
      pre  == {i \in 1..Len(p) : ~KeyBefore(name, p[i].key)}
      n    == Cardinality(pre)
  IN IF name = PROTO THEN res        \* Object.prototype's setter: no own property
     ELSE IF at # {}
     THEN Obj([i \in 1..Len(p) |-> IF i \in at THEN Prop(name, val) ELSE p[i]])
     ELSE Obj(SubSeq(p, 1, n) \o <<Prop(name, val)>> \o SubSeq(p, n + 1, Len(p)))

\* ------------------------------------------------------------------------
\* Parser: the decode loop, in continuation-passing style
\* ------------------------------------------------------------------------
\* A continuation is a stack of frames, innermost first; under the last
\* frame lies the completion callback given to Parser.unpack.
\*   "arr"  the callback of _unpackArray (left, res)
\*   "key"  the outer callback of _unpackMap (left, res)
\*   "val"  the inner callback of _unpackMap (left, res, key)
\*   "tag"  the callback of _unpackSemanticTag (tag)
Frame(f, left, res, key, tag) ==
  [f |-> f, left |-> left, res |-> res, key |-> key, tag |-> tag]

\* A request pending in the BufferStream: n bytes for the continuation
\* kind ("hdr": the initial byte; "ext": the operand bytes; "bytes" and
\* "text": a payload) with its captured mt, ai, tagged and callback stk.
Wait(n, kind, mt, ai, tagged, stk) ==
  [n |-> n, kind |-> kind, mt |-> mt, ai |-> ai, tagged |-> tagged, stk |-> stk]

NoWait == Wait(<<>>, "", 0, 0, FALSE, <<>>)

\* How a run of the parser ends: suspended in a wait, the completion
\* callback called with (er, val, tag), or an exception raised.  er = ""
\* is the null error.  buf is what the BufferStream still holds.
Blocked(buf, w) ==
  [st |-> "wait", buf |-> buf, w |-> w, er |-> "", val |-> Undefined, tag |-> Undefined,
   n |-> 0]
Called(buf, er, val, tag) ==
  [st |-> "cb", buf |-> buf, w |-> NoWait, er |-> er, val |-> val, tag |-> tag, n |-> 1]
Thrown(buf, ex) ==
  [st |-> "throw", buf |-> buf, w |-> NoWait, er |-> ex, val |-> Undefined, tag |-> Undefined,
   n |-> 0]

\* the tag-decode registry Parser() starts from
semanticTags ==
  << [tag |-> 11, fun |-> "_unpackDate"],
     [tag |-> 15, fun |-> "_unpackUri"],
     [tag |-> 23, fun |-> "_unpackRegex"] >>

\* semanticTags[tag], "" when absent
TagDecoder(tag) ==
  LET hit == {i \in 1..Len(semanticTags) : Mag(semanticTags[i].tag) = tag}
  IN IF hit = {} THEN "" ELSE semanticTags[CHOOSE i \in hit : TRUE].fun

RECURSIVE ParenDepth(_, _)
\* the nesting depth after reading s from depth d; -1 once a ")" has no "("
ParenDepth(s, d) ==
  IF s = <<>> \/ d < 0 THEN d
  ELSE ParenDepth(Tail(s), IF Head(s) = 40 THEN d + 1
                           ELSE IF Head(s) = 41 THEN d - 1 ELSE d)

\* whether new RegExp(s) accepts the pattern: groups must balance (the
\* patterns of this model carry no other syntax character)
RegExpSyntaxOK(s) == ParenDepth(s, 0) = 0

\* the RegExp new RegExp(s) builds; the empty pattern has source "(?:)"
RegExpOf(s) == [t |-> "regexp", src |-> IF s = <<>> THEN <<40, 63, 58, 41>> ELSE s]

RECURSIVE wait(_, _)
RECURSIVE resume(_, _, _)
RECURSIVE ret(_, _, _, _, _)
RECURSIVE _getVal(_, _, _, _, _)
RECURSIVE _unpackArray(_, _, _, _)
RECURSIVE _unpackMap(_, _, _, _)

\* _unpack(bs, cb, tagged): wait for the initial byte
_unpack(buf, stk, tagged) == wait(buf, Wait(Mag(1), "hdr", 0, 0, tagged, stk))

\* cb.call(that, null, new Unallocated(n))
NewSimple(buf, stk, n) ==
  LET r == Unallocated(IntNum(n)) IN
  IF r.ok THEN ret(buf, stk, "", r.val, Undefined) ELSE Thrown(buf, r.er)

_unpackSmallNumber(buf, ai, got, stk) ==
  IF ai <= 23 THEN NewSimple(buf, stk, ai)
  ELSE CASE ai = 24 -> ret(buf, stk, "", Bool(FALSE), Undefined)
         [] ai = 25 -> ret(buf, stk, "", Bool(TRUE), Undefined)
         [] ai = 26 -> ret(buf, stk, "", Null, Undefined)
         [] ai = 27 -> ret(buf, stk, "", Undefined, Undefined)
         [] ai = 28 -> NewSimple(buf, stk, got[1])
         [] ai = 29 -> ret(buf, stk, "", _unpackHalf(got), Undefined)
         [] ai = 30 -> ret(buf, stk, "", ReadIEEE(got, 8, 23), Undefined)
         [] ai = 31 -> ret(buf, stk, "", ReadIEEE(got, 11, 52), Undefined)

_unpackDate(buf, obj, stk) ==
  CASE typeof(obj) = "string" ->
         ret(buf, stk, "", [t |-> "date", iso |-> obj.s], Undefined)
    [] typeof(obj) = "number" ->
         ret(buf, stk, "", NewDate(Times1000(obj)), Undefined)
    [] typeof(obj) = "boolean" ->
         ret(buf, stk, "Unsupported date type: boolean", Undefined, Undefined)
    [] typeof(obj) = "undefined" ->
         ret(buf, stk, "Unsupported date type: undefined", Undefined, Undefined)
    [] typeof(obj) = "object" ->
         ret(buf, stk, "Unsupported date type: object", Undefined, Undefined)

_unpackUri(buf, obj, stk) ==
  CASE typeof(obj) = "string" ->
         ret(buf, stk, "", [t |-> "url", href |-> obj.s], Undefined)
    [] typeof(obj) = "number" ->
         ret(buf, stk, "Unsupported Uri type: number", Undefined, Undefined)
    [] typeof(obj) = "boolean" ->
         ret(buf, stk, "Unsupported Uri type: boolean", Undefined, Undefined)
    [] typeof(obj) = "undefined" ->
         ret(buf, stk, "Unsupported Uri type: undefined", Undefined, Undefined)
    [] typeof(obj) = "object" ->
         ret(buf, stk, "Unsupported Uri type: object", Undefined, Undefined)

_unpackRegex(buf, obj, stk) ==
  CASE typeof(obj) = "string" ->
         IF RegExpSyntaxOK(obj.s)
         THEN ret(buf, stk, "", RegExpOf(obj.s), Undefined)
         ELSE Thrown(buf, "SyntaxError: Invalid regular expression")
    [] typeof(obj) = "number" ->
         ret(buf, stk, "Unsupported RegExp type: number", Undefined, Undefined)
    [] typeof(obj) = "boolean" ->
         ret(buf, stk, "Unsupported RegExp type: boolean", Undefined, Undefined)
    [] typeof(obj) = "undefined" ->
         ret(buf, stk, "Unsupported RegExp type: undefined", Undefined, Undefined)
    [] typeof(obj) = "object" ->
         ret(buf, stk, "Unsupported RegExp type: object", Undefined, Undefined)

\* _unpackSemanticTag decoding the inner item as if no tag preceded it
_unpackSemanticTag_Untagged(buf, tag, stk) ==
  _unpack(buf, <<Frame("tag", <<>>, Undefined, Undefined, tag)>> \o stk, FALSE)

\* _unpackSemanticTag(tag, bs, cb): decode the inner item with tagged = true
_unpackSemanticTag(buf, tag, stk) ==
  _unpack(buf, <<Frame("tag", <<>>, Undefined, Undefined, tag)>> \o stk, TRUE)

\* the callback of _unpackSemanticTag leaving the tag out of cb's arguments
TagCallback_NoTag(buf, fr, stk, er, obj) ==
  IF er # "" THEN ret(buf, stk, er, Undefined, Undefined)
  ELSE LET f == TagDecoder(fr.tag) IN
       CASE f = "_unpackDate" -> _unpackDate(buf, obj, stk)
         [] f = "_unpackUri" -> _unpackUri(buf, obj, stk)
         [] f = "_unpackRegex" -> _unpackRegex(buf, obj, stk)
         [] f = "" -> ret(buf, stk, "", obj, Undefined)

\* the callback _unpackSemanticTag gives to _unpack
TagCallback(buf, fr, stk, er, obj) ==
  IF er # "" THEN ret(buf, stk, er, Undefined, Undefined)
  ELSE LET f == TagDecoder(fr.tag) IN
       CASE f = "_unpackDate" -> _unpackDate(buf, obj, stk)
         [] f = "_unpackUri" -> _unpackUri(buf, obj, stk)
         [] f = "_unpackRegex" -> _unpackRegex(buf, obj, stk)
         [] f = "" -> ret(buf, stk, "", obj, Nat2Num(fr.tag))

_unpackArray(buf, left, res, stk) ==
  IF left = <<>> THEN ret(buf, stk, "", res, Undefined)
  ELSE _unpack(buf, <<Frame("arr", left, res, Undefined, <<>>)>> \o stk, FALSE)

\* two runs one after the other on the same callback: the calls add up
Also(r1, r2) ==
  IF r1.st = "throw" THEN r1 ELSE [r2 EXCEPT !.n = r1.n + r2.n]

\* the callback of _unpackArray reporting an error without returning
ArrayCallback_NoReturn(buf, fr, stk, er, obj) ==
  IF er # ""
  THEN Also(ret(buf, stk, er, Undefined, Undefined),
            _unpackArray(buf, MagDec(fr.left), Arr(Append(fr.res.e, obj)), stk))
  ELSE _unpackArray(buf, MagDec(fr.left), Arr(Append(fr.res.e, obj)), stk)

\* the callback _unpackArray gives to _unpack
ArrayCallback(buf, fr, stk, er, obj) ==
  IF er # "" THEN ret(buf, stk, er, Undefined, Undefined)
  ELSE _unpackArray(buf, MagDec(fr.left), Arr(Append(fr.res.e, obj)), stk)

_unpackMap(buf, left, res, stk) ==
  IF left = <<>> THEN ret(buf, stk, "", res, Undefined)
  ELSE _unpack(buf, <<Frame("key", left, res, Undefined, <<>>)>> \o stk, FALSE)

\* the outer callback of _unpackMap: the key has been decoded
KeyCallback(buf, fr, stk, er, key) ==
  IF er # "" THEN ret(buf, stk, er, Undefined, Undefined)
  ELSE _unpack(buf, <<Frame("val", fr.left, fr.res, key, <<>>)>> \o stk, FALSE)

\* the inner callback of _unpackMap: the value has been decoded
ValCallback(buf, fr, stk, er, val) ==
  IF er # "" THEN ret(buf, stk, er, Undefined, Undefined)
  ELSE _unpackMap(buf, MagDec(fr.left), SetProp(fr.res, fr.key, val), stk)

\* cb.call(that, er, val, tag) on the continuation stk
ret(buf, stk, er, val, tag) ==
  IF stk = <<>> THEN Called(buf, er, val, tag)
  ELSE LET fr == Head(stk) IN
       CASE fr.f = "arr" -> ArrayCallback(buf, fr, Tail(stk), er, val)
         [] fr.f = "key" -> KeyCallback(buf, fr, Tail(stk), er, val)
         [] fr.f = "val" -> ValCallback(buf, fr, Tail(stk), er, val)
         [] fr.f = "tag" -> TagCallback(buf, fr, Tail(stk), er, val)

\* _getVal asking for one byte more than the length of a text string
_getVal_TextPlusOne(buf, mt, num, stk, tagged) ==
  CASE mt = 0 -> ret(buf, stk, "", Nat2Num(num), Undefined)
    [] mt = 1 -> ret(buf, stk, "", NegNum(num), Undefined)
    [] mt = 2 -> wait(buf, Wait(num, "bytes", mt, 0, FALSE, stk))
    [] mt = 3 -> wait(buf, Wait(MagInc(num), "text", mt, 0, FALSE, stk))
    [] mt = 4 -> _unpackArray(buf, num, Arr(<<>>), stk)
    [] mt = 5 -> _unpackMap(buf, num, Obj(<<>>), stk)
    [] mt = 6 -> _unpackSmallNumber(buf, MagVal(num), <<>>, stk)
    [] mt = 7 -> IF tagged
                 THEN ret(buf, stk, "Tag must not follow a tag", Undefined, Undefined)
                 ELSE _unpackSemanticTag(buf, num, stk)

_getVal(buf, mt, num, stk, tagged) ==
  CASE mt = 0 -> ret(buf, stk, "", Nat2Num(num), Undefined)
    [] mt = 1 -> ret(buf, stk, "", NegNum(num), Undefined)       \* -1 - num
    [] mt = 2 -> wait(buf, Wait(num, "bytes", mt, 0, FALSE, stk))
    [] mt = 3 -> wait(buf, Wait(num, "text", mt, 0, FALSE, stk))
    [] mt = 4 -> _unpackArray(buf, num, Arr(<<>>), stk)
    [] mt = 5 -> _unpackMap(buf, num, Obj(<<>>), stk)
    [] mt = 6 -> _unpackSmallNumber(buf, MagVal(num), <<>>, stk)
    [] mt = 7 -> IF tagged
                 THEN ret(buf, stk, "Tag must not follow a tag", Undefined, Undefined)
                 ELSE _unpackSemanticTag(buf, num, stk)

\* the continuation of a wait, called with the bytes it asked for
resume(buf, w, got) ==
  CASE w.kind = "hdr" ->
         LET octet == got[1]
             mt == octet \div 32                       \* octet >> 5
             ai == octet % 32                          \* octet & 0x1f
             additionalBytes == ai - 28
         IN IF additionalBytes >= 0
            THEN wait(buf, Wait(Mag(Pow2(additionalBytes)), "ext", mt, ai, w.tagged, w.stk))
            ELSE _getVal(buf, mt, Mag(ai), w.stk, w.tagged)
    [] w.kind = "ext" ->
         IF w.mt = 6 THEN _unpackSmallNumber(buf, w.ai, got, w.stk)
         ELSE _getVal(buf, w.mt, _unpackInt(w.ai, got), w.stk, w.tagged)
    [] w.kind = "bytes" -> ret(buf, w.stk, "", Buf(got), Undefined)
    [] w.kind = "text" -> ret(buf, w.stk, "", Str(Utf8Decode(got)), Undefined)

\* BufferStream.wait(n, cb): with n bytes buffered the next n bytes go to
\* cb at once; otherwise the request is remembered
wait(buf, w) ==
  IF MagLE(w.n, Mag(Len(buf)))
  THEN resume(SubSeq(buf, MagVal(w.n) + 1, Len(buf)), w, SubSeq(buf, 1, MagVal(w.n)))
  ELSE Blocked(buf, w)

\* Buffer.slice(start): from start on, a negative start counting from the
\* end, both clamped to the buffer
slice(bytes, start) ==
  LET from == IF start < 0 THEN (IF Len(bytes) + start < 0 THEN 0 ELSE Len(bytes) + start)
              ELSE (IF start > Len(bytes) THEN Len(bytes) ELSE start)
  IN SubSeq(bytes, from + 1, Len(bytes))

\* Parser.unpack(buf, offset, cb) on a raw Buffer: the bytes from offset
\* on are wrapped in a fresh BufferStream
unpack(bytes, offset) == _unpack(slice(bytes, offset), <<>>, FALSE)

\* ------------------------------------------------------------------------
\* State
\* ------------------------------------------------------------------------
VARIABLES
  call,      \* the call under test: pack(obj), _packInt(i, mt) or unpack(bytes)
  pc,        \* "start", "packed", "unpacked"
  out,       \* what the Generator produced
  dec,       \* how Parser.unpack on a raw Buffer ended
  input,     \* the bytes the Readable will deliver
  rest,      \* those not yet written to the ParseStream
  buf,       \* the bytes buffered in the ParseStream's BufferStream
  waits,     \* its pending wait requests, oldest first
  ticks,     \* the process.nextTick queue: "getNext", "end", "finish"
  events,    \* the events the ParseStream has emitted, in order
  thrown,    \* an exception has escaped the parser; uncaught in a tick or in
             \* the data handler of the pipe, it ends the run
  ended,     \* "open"; "ending" once the Readable has scheduled its 'end';
             \* "ended" once pipe has called end() on the ParseStream
  finished,  \* 'finish' has been emitted
  fired,     \* exports.unpack: the flag guarding cb
  cbs,       \* exports.unpack: the calls of cb, in order
  reg,       \* a Generator's semanticTypes: (type, packer) pairs in order
  hist,      \* the addSemanticType calls made on it, in order
  old,       \* what the last addSemanticType returned
  invoked    \* the packer the last pack ran for its argument

codecVars == <<call, pc, out, dec>>
streamVars == <<input, rest, buf, waits, ticks, events, thrown, ended, finished, fired, cbs>>
registryVars == <<reg, hist, old, invoked>>
vars == <<call, pc, out, dec, input, rest, buf, waits, ticks, events, thrown, ended,
          finished, fired, cbs, reg, hist, old, invoked>>

\* ------------------------------------------------------------------------
\* Inputs of the codec calls
\* ------------------------------------------------------------------------
\* how far around each framing boundary the integer inputs reach
Around == 1

\* operands at the boundaries of the framing table
Boundaries == {0, 23, 27, 255, 65535, 16777215}

SmallInts ==
  {b + d : b \in Boundaries, d \in (0 - Around)..(Around + 1)} \cap 0..16777300

\* 2^31 - 1 - d, 2^31 + d, 2^32 + d, 2^53 as digit sequences
NearTop ==
  {<<127, 255, 255, 255 - d>> : d \in 0..(Around + 1)}
  \cup {<<128, 0, 0, d>> : d \in 0..(Around + 1)}
  \cup {<<1, 0, 0, 0, d>> : d \in 0..Around}
  \cup {<<255, 255, 255, 255>>, <<32, 0, 0, 0, 0, 0, 0>>}

Operands == {Mag(n) : n \in SmallInts} \cup NearTop

\* integers of either sign, 0 and -0
IntInputs ==
  {Fin(neg, m, 0) : neg \in BOOLEAN, m \in Operands}

\* 1.5, -0.5, 0.75, 2^31 + 0.5, -(2^32 + 1) / 2, NaN, Infinity, -Infinity
OtherNumbers ==
  { Fin(FALSE, <<3>>, 1), Fin(TRUE, <<1>>, 1), Fin(FALSE, <<3>>, 2),
    Fin(FALSE, <<1, 0, 0, 0, 1>>, 1), Fin(TRUE, <<1, 0, 0, 0, 1>>, 1),
    NaN, Infinity(FALSE), Infinity(TRUE) }

NumberInputs == IntInputs \cup OtherNumbers

\* the Buffer lengths on both sides of each framing boundary
BufLens == {0, 1, 27, 28, 255, 256, 65535, 65536}

\* a Buffer of n bytes, all different from their neighbours
Fill(n, k) == [i \in 1..n |-> (i * 7 + k) % 256]

BufferInputs == {Buf(Fill(n, k)) : n \in BufLens, k \in {0, 131}}

\* the longest array built from the atoms
MaxArr == 2

Seqs(S, n) == UNION {[1..k -> S] : k \in 0..n}

\* "a", "", "ab", e-acute (two UTF-8 bytes), the euro sign (three)
Strings == {<<97>>, <<>>, <<97, 98>>, <<233>>, <<8364>>}

Atoms ==
  {Nat2Num(<<>>), IntNum(1), IntNum(-29), IntNum(65536), Bool(TRUE), Bool(FALSE),
   Null, Undefined, Str(<<97>>), Str(<<233, 8364>>)}

Arrays1 == {Arr(e) : e \in Seqs(Atoms, MaxArr)}

\* property names: "a", "b", "", "__proto__"
Keys == {<<97>>, <<98>>, <<>>, PROTO}

Objects1 ==
  {Obj(<<>>)}
  \cup {Obj(<<Prop(k, v)>>) : k \in Keys, v \in Atoms}
  \cup {Obj(<<Prop(<<97>>, v), Prop(<<98>>, w)>>) : v, w \in {IntNum(1), Null, Str(<<97>>)}}
  \cup {Obj(<<Prop(<<49>>, IntNum(2)), Prop(<<97>>, Bool(TRUE))>>)}

Inner == {Arr(<<>>), Arr(<<IntNum(1), IntNum(256)>>), Obj(<<>>),
          Obj(<<Prop(<<97>>, IntNum(1))>>), Obj(<<Prop(PROTO, IntNum(1))>>)}

Nested ==
  {Arr(<<x>>) : x \in Inner}
  \cup {Arr(<<Undefined, x, Str(<<97>>)>>) : x \in Inner}
  \cup {Obj(<<Prop(<<97>>, x), Prop(<<98>>, y)>>) : x, y \in Inner}
  \cup {Arr(<<Arr(<<Arr(<<x>>)>>)>>) : x \in Inner}
  \cup {Obj(<<Prop(<<97>>, Obj(<<Prop(<<98>>, Arr(<<IntNum(1), x>>))>>))>>) : x \in Inner}

CompositeInputs == {Str(x) : x \in Strings} \cup Atoms \cup Arrays1 \cup Objects1 \cup Nested

\* new Unallocated(v) for every v the constructor accepts
SimpleInputs == {[t |-> "simple", u |-> v] : v \in 0..255}

\* the Date at s seconds after the epoch
DateAt(s) == NewDate(Fin(s.neg /\ s.mag # <<>>, MulDigits(s.mag, 1000, 0), 0))

\* whole seconds from -2^31 to 2^31 - 1, around the framing boundaries
DateSeconds ==
  {Fin(neg, Mag(n), 0) : neg \in BOOLEAN, n \in {0, 1, 27, 28, 255, 256, 65535, 65536}}
  \cup {Fin(FALSE, <<59, 154, 202, 0>>, 0), Fin(FALSE, <<127, 255, 255, 255>>, 0),
        Fin(TRUE, <<127, 255, 255, 255>>, 0), Fin(TRUE, <<128, 0, 0, 0>>, 0)}

\* Dates past that range, between two seconds, and the Invalid Date
OtherDates ==
  {DateAt(Fin(FALSE, <<128, 0, 0, 0>>, 0)), DateAt(Fin(TRUE, <<128, 0, 0, 1>>, 0)),
   NewDate(IntNum(1)), NewDate(IntNum(1001)), NewDate(IntNum(1500)), NewDate(IntNum(-999)),
   NewDate(NaN)}

DateInputs == {DateAt(s) : s \in DateSeconds} \cup OtherDates

\* RegExps with the sources a, (?:), (a), a|b, e-acute euro, and two whose
\* source holds an unpaired surrogate: \ud800 and a\udc00
RegExpInputs ==
  {[t |-> "regexp", src |-> s] :
     s \in {<<97>>, <<40, 63, 58, 41>>, <<40, 97, 41>>, <<97, 124, 98>>, <<233, 8364>>,
            <<55296>>, <<97, 56320>>}}

PackInputs ==
  NumberInputs \cup BufferInputs \cup CompositeInputs \cup SimpleInputs \cup DateInputs
  \cup RegExpInputs

\* the major types _packInt is called with
MajorTypes == 0..6

\* initial bytes of tagged items: tags 11, 5, 23 inline; 11 and 100 in an
\* operand byte
TagHeads == {<<235>>, <<229>>, <<247>>, <<252, 11>>, <<252, 100>>}

\* items a tag can apply to: 1, "a", "(" and the array [1, "a"]
Plain == {<<1>>, <<97, 97>>, <<97, 40>>, <<130, 1, 97, 97>>}

\* a tag directly on a tag, at the top or inside an array
TagOnTag ==
  {h1 \o h2 \o x : h1 \in TagHeads, h2 \in TagHeads, x \in Plain}
  \cup {<<129>> \o h1 \o h2 \o x : h1 \in TagHeads, h2 \in {<<235>>, <<229>>}, x \in Plain}
  \cup {<<229, 129>> \o h1 \o h2 \o x : h1 \in {<<235>>, <<229>>}, h2 \in TagHeads, x \in {<<1>>}}

\* a tag on an array or a map that holds tagged elements
TagOnComposite ==
  {h1 \o <<129>> \o h2 \o x : h1 \in TagHeads, h2 \in TagHeads, x \in Plain}
  \cup {h1 \o <<130, 1>> \o h2 \o x : h1 \in TagHeads, h2 \in TagHeads, x \in {<<1>>}}
  \cup {h1 \o <<161, 97, 97>> \o h2 \o x : h1 \in TagHeads, h2 \in TagHeads, x \in {<<1>>, <<97, 97>>}}
  \cup {h1 \o <<161>> \o h2 \o x \o <<1>> : h1 \in TagHeads, h2 \in {<<229>>}, x \in Plain}

\* initial bytes of tags without a decoder, and their tag numbers
UnknownHeads == {<<229>>, <<252, 100>>}
TagNumber(h) == IF Len(h) = 1 THEN <<h[1] % 32>> ELSE Tail(h)

\* a tagged item as the element of an array, the value of a map entry and
\* the first element of two
TagInComposite ==
  {<<129>> \o h \o x : h \in TagHeads, x \in Plain}
  \cup {<<161, 97, 97>> \o h \o x : h \in TagHeads, x \in Plain}
  \cup {<<130>> \o h \o x \o <<1>> : h \in TagHeads, x \in Plain}

\* every initial byte of major type 6, with the operand bytes it asks for
Mt6Inputs ==
  {<<192 + ai>> : ai \in 0..27} \cup {<<220, b>> : b \in 0..255}
  \cup {<<221, 60, 0>>, <<222, 63, 192, 0, 0>>, <<223, 63, 248, 0, 0, 0, 0, 0, 0>>}

\* half-precision patterns: both signs, every exponent, mantissas at the
\* ends and in the middle of the range
HalfMants == {0, 1, 2, 3, 256, 512, 513, 768, 1022, 1023}
HalfBytes(s, e, m) == <<s * 128 + e * 4 + (m \div 256), m % 256>>
HalfInputs ==
  {<<221>> \o HalfBytes(s, e, m) : s \in 0..1, e \in 0..31, m \in HalfMants}

\* arguments of new Unallocated: integers around the limits, -0, 1.5,
\* 255.5, NaN, the infinities, and values that are no numbers
SimpleArgs ==
  {IntNum(n) : n \in {-256, -1, 0, 1, 23, 24, 27, 28, 254, 255, 256, 257, 65536}}
  \cup {Fin(TRUE, <<>>, 0), Fin(FALSE, <<3>>, 1), Fin(FALSE, <<1, 255>>, 1),
        Fin(FALSE, <<1, 0, 0, 0, 0>>, 0), NaN, Infinity(FALSE), Infinity(TRUE),
        Str(<<49>>), Bool(TRUE), Null, Undefined, Arr(<<IntNum(1)>>)}

RawInputs ==
  Mt6Inputs \cup HalfInputs \cup Plain \cup {h \o x : h \in TagHeads, x \in Plain} \cup TagOnTag \cup TagOnComposite
  \cup TagInComposite

\* the most pairs a map given to the parser holds
MaxPairs == 2

\* encoded keys "a", "b", 1, "1", "__proto__" and values 1, 2, "a", {b:1}
KeyItems == {<<97, 97>>, <<97, 98>>, <<1>>, <<97, 49>>, <<105>> \o PROTO}
ValItems == {<<1>>, <<2>>, <<97, 97>>, <<161, 97, 98, 1>>}
Pair(k, v) == [k |-> k, v |-> v]
PairSeqs ==
  Seqs({Pair(k, v) : k \in KeyItems, v \in ValItems}, MaxPairs)
  \cup {<<Pair(<<97, 97>>, <<1>>), Pair(<<97, 98>>, <<2>>), Pair(<<97, 97>>, <<97, 97>>)>>}

RECURSIVE PairBytes(_)
PairBytes(ps) ==
  IF ps = <<>> THEN <<>> ELSE Head(ps).k \o Head(ps).v \o PairBytes(Tail(ps))

\* a map item: the count inline or in one operand byte, then the pairs
MapBytes(ps, inline) ==
  (IF inline THEN <<160 + Len(ps)>> ELSE <<188, Len(ps)>>) \o PairBytes(ps)

\* bytes that follow the item in the buffer
Trails == {<<>>, <<7, 161>>}

\* the longest chunk one write carries
MaxChunk == 2

\* one item of every framing: 0, 1, 2, 4 and 8 operand bytes, payloads,
\* nested items, tags and simple values
FramedItems ==
  {<<23>>, <<28, 200>>, <<29, 1, 0>>, <<30, 0, 1, 0, 0>>, <<31, 0, 0, 0, 1, 0, 0, 0, 0>>,
   <<60, 5>>, <<66, 1, 2>>, <<92, 2, 1, 2>>, <<93, 0, 1, 9>>, <<98, 97, 98>>, <<96>>,
   <<128>>, <<160>>, <<130, 1, 130, 2, 3>>, <<162, 97, 97, 1, 97, 98, 130, 1, 2>>,
   <<235, 97, 49>>, <<229, 130, 1, 2>>, <<252, 100, 129, 1>>, <<217>>, <<220, 200>>,
   <<221, 60, 0>>, <<222, 63, 192, 0, 0>>, <<223, 63, 248, 0, 0, 0, 0, 0, 0>>}

\* those items with bytes after them in the buffer
TrailedInputs == {x \o tr : x \in FramedItems, tr \in Trails \cup {<<130>>, <<98, 97, 98>>}}

\* items with a nested item that fails to decode: the bytes up to the
\* failing item, the bytes the failure is found in, and the bytes after it
Failing(pre, bad, post) == [t |-> "fail", pre |-> pre, bad |-> bad, post |-> post]
FailCases ==
  { Failing(<<130>>, <<235, 217>>, <<1>>),              \* [Date(true), 1]
    Failing(<<131, 1>>, <<235, 229>>, <<1, 2>>),        \* [1, tag on tag, 2]
    Failing(<<162, 97, 97>>, <<239, 1>>, <<97, 98, 2>>),\* {a: Uri(1), b: 2}
    Failing(<<162>>, <<235, 217>>, <<1, 2, 3>>),        \* a failing key
    Failing(<<129, 130>>, <<235, 217>>, <<1>>),         \* [[Date(true), 1]]
    Failing(<<229, 130>>, <<247, 1>>, <<1>>),           \* tag 5 on [RegExp(1), 1]
    Failing(<<161, 97, 97, 130>>, <<235, 218>>, <<2, 7>>), \* {a: [Date(null), 2]} 7
    Failing(<<>>, <<235, 217>>, <<1>>) }                \* Date(true) at the top

\* inputs that arrive in chunks: failing ones, complete ones with bytes
\* after them, and ones that stop short
ChunkedInputs ==
  {<<130, 1, 2, 7>>, <<161, 97, 97, 1>>, <<229, 130, 1, 235, 1, 7>>, <<29, 1, 0, 1>>,
   <<98, 97, 98, 161>>, <<130, 1>>, <<98, 97>>, <<129, 247, 97, 40>>}

Call(op, obj, i, mt, bytes) ==
  [op |-> op, obj |-> obj, i |-> i, mt |-> mt, bytes |-> bytes, offset |-> 0]

\* unpack(bytes, offset, cb): offsets before, inside and past the buffer
Offsets == -2..5
OffsetBuffers == {<<7, 130, 1, 2>>, <<130, 1>>, <<1>>, <<247, 97, 40>>}
OffsetCalls ==
  {[Call("unpack", Undefined, <<>>, 0, b) EXCEPT !.offset = o] :
     b \in OffsetBuffers, o \in Offsets}

Calls ==
  {Call("pack", v, <<>>, 0, <<>>) : v \in PackInputs}
  \cup {Call("_packInt", Undefined, i, mt, <<>>) : i \in Operands, mt \in MajorTypes}
  \cup {Call("unpack", Undefined, <<>>, 0, b) : b \in RawInputs}
  \cup {Call("Unallocated", v, <<>>, 0, <<>>) : v \in SimpleArgs}
  \cup {Call("unpack", [t |-> "pairs", p |-> ps], <<>>, 0, MapBytes(ps, inline) \o tr) :
          ps \in PairSeqs, inline \in BOOLEAN, tr \in Trails}
  \cup {Call(op, f, <<>>, 0, f.pre \o f.bad \o f.post) :
          op \in {"unpack", "unpackStream"}, f \in FailCases}
  \cup {Call("unpackStream", Undefined, <<>>, 0, b) : b \in ChunkedInputs}
  \cup {Call("unpack", Undefined, <<>>, 0, b) : b \in TrailedInputs}
  \cup OffsetCalls

NoOut == [ok |-> FALSE, b |-> <<>>, er |-> "none"]
NoDec == [st |-> "none", buf |-> <<>>, w |-> NoWait, er |-> "", val |-> Undefined,
          tag |-> Undefined, n |-> 0]

\* no ParseStream in use
NoStream ==
  /\ input = <<>> /\ buf = <<>> /\ waits = <<>> /\ ticks = <<>>
  /\ events = <<>> /\ thrown = FALSE /\ ended = "open" /\ finished = FALSE
  /\ fired = FALSE /\ cbs = <<>>

StreamIdle == NoStream /\ rest = <<>>

\* a fresh Generator on which nothing has been called
RegistryIdle ==
  /\ reg = semanticTypes /\ hist = <<>> /\ old = "none" /\ invoked = "none"

\* ------------------------------------------------------------------------
\* The codec calls
\* ------------------------------------------------------------------------
Init ==
  /\ call \in Calls
  /\ pc = "start" /\ out = NoOut /\ dec = NoDec
  /\ rest = IF call.op = "unpackStream" THEN call.bytes ELSE <<>>
  /\ NoStream /\ RegistryIdle

\* exports.pack(obj)
Pack ==
  /\ pc = "start" /\ call.op = "pack"
  /\ out' = pack(call.obj)
  /\ pc' = "packed"
  /\ UNCHANGED <<call, dec>> /\ UNCHANGED streamVars /\ UNCHANGED registryVars

\* _packInt(i, mt, bufs) on an empty BufferStream
PackInt ==
  /\ pc = "start" /\ call.op = "_packInt"
  /\ out' = _packInt(call.i, call.mt)
  /\ pc' = "packed"
  /\ UNCHANGED <<call, dec>> /\ UNCHANGED streamVars /\ UNCHANGED registryVars

\* new Parser().unpack(bytes, cb) on the bytes pack returned
UnpackPacked ==
  /\ pc = "packed" /\ call.op = "pack" /\ out.ok
  /\ dec' = unpack(out.b, 0)
  /\ pc' = "unpacked"
  /\ UNCHANGED <<call, out>> /\ UNCHANGED streamVars /\ UNCHANGED registryVars

\* new Parser().unpack(bytes, cb) on given bytes
UnpackRaw ==
  /\ pc = "start" /\ call.op = "unpack"
  /\ dec' = unpack(call.bytes, call.offset)
  /\ pc' = "unpacked"
  /\ UNCHANGED <<call, out>> /\ UNCHANGED streamVars /\ UNCHANGED registryVars

\* new Unallocated(num)
Construct ==
  /\ pc = "start" /\ call.op = "Unallocated"
  /\ LET r == Unallocated(call.obj) IN
     out' = [ok |-> r.ok, b |-> <<>>, er |-> r.er, val |-> r.val]
  /\ pc' = "constructed"
  /\ UNCHANGED <<call, dec>> /\ UNCHANGED streamVars /\ UNCHANGED registryVars

\* new Parser().unpack(bs, cb) on a BufferStream nothing has been written to
UnpackStream ==
  /\ pc = "start" /\ call.op = "unpackStream"
  /\ dec' = _unpack(<<>>, <<>>, FALSE)
  /\ pc' = "feeding"
  /\ UNCHANGED <<call, out>> /\ UNCHANGED streamVars /\ UNCHANGED registryVars

\* the application writes the next chunk to that BufferStream: a pending
\* wait that now has its bytes is delivered
Feed ==
  /\ pc = "feeding" /\ rest # <<>>
  /\ \E k \in 1..MaxChunk :
       /\ k <= Len(rest)
       /\ LET chunk == SubSeq(rest, 1, k) IN
          dec' = IF dec.st = "wait"
                 THEN LET r == wait(dec.buf \o chunk, dec.w)
                      IN [r EXCEPT !.n = @ + dec.n]
                 ELSE [dec EXCEPT !.buf = @ \o chunk]
       /\ rest' = SubSeq(rest, k + 1, Len(rest))
       /\ pc' = IF k = Len(rest) THEN "fed" ELSE "feeding"
  /\ UNCHANGED <<call, out, input, buf, waits, ticks, events, thrown, ended, finished,
                 fired, cbs>>
  /\ UNCHANGED registryVars

Next == Pack \/ PackInt \/ UnpackPacked \/ UnpackRaw \/ Construct \/ UnpackStream \/ Feed

Spec == Init /\ [][Next]_vars

\* ------------------------------------------------------------------------
\* A Generator whose registry the application changes
\* ------------------------------------------------------------------------
\* the most addSemanticType calls made on one Generator
MaxRegs == 2

RegTypes ==
  {"Array", "Date", "Buffer", "BufferStream", "RegExp", "Unallocated", "Foo", "Object"}

\* an array, a Date, a Buffer, a BufferStream, a RegExp, a Simple, a Foo with
\* one property, a plain object, an array holding a Foo, and a string
RegObjects ==
  { Arr(<<IntNum(1)>>), NewDate(IntNum(1000)), Buf(<<1, 2>>),
    [t |-> "bufstream", d |-> <<3>>], [t |-> "regexp", src |-> <<97>>],
    [t |-> "simple", u |-> 7], [t |-> "foo", p |-> <<Prop(<<97>>, IntNum(1))>>],
    Obj(<<Prop(<<97>>, IntNum(1))>>),
    Arr(<<[t |-> "foo", p |-> <<>>]>>), Str(<<97>>) }

RegistryInit ==
  /\ call = Call("registry", Undefined, <<>>, 0, <<>>)
  /\ pc = "registry" /\ out = NoOut /\ dec = NoDec
  /\ StreamIdle /\ RegistryIdle

\* gen.addSemanticType(type, fun)
AddSemanticType ==
  /\ Len(hist) < MaxRegs
  /\ \E type \in RegTypes, fun \in UserPackers :
       LET r == addSemanticType(reg, type, fun) IN
       /\ reg' = r.reg /\ old' = r.old
       /\ hist' = Append(hist, [type |-> type, fun |-> fun])
  /\ pc' = "registered"
  /\ UNCHANGED <<invoked, call, out, dec>> /\ UNCHANGED streamVars

\* gen.pack(obj)
GeneratorPack ==
  /\ \E obj \in RegObjects :
       /\ call' = Call("pack", obj, <<>>, 0, <<>>)
       /\ out' = unsafePack(reg, obj)
       /\ invoked' = IF typeof(obj) = "object" THEN Dispatch(reg, obj) ELSE "none"
  /\ pc' = "packed"
  /\ UNCHANGED <<dec, reg, hist, old>> /\ UNCHANGED streamVars

RegistryNext == AddSemanticType \/ GeneratorPack

RegistrySpec == RegistryInit /\ [][RegistryNext]_vars

\* ------------------------------------------------------------------------
\* ParseStream, and exports.unpack over a Readable piped into it
\* ------------------------------------------------------------------------
\* the most top-level items a stream carries
MaxItems == 2

\* encoded items: 1, 255, 256, -1, "a", [1,2], {a:1}, true, the empty byte
\* string, tag 5 on 1, the Date of 1 s, the RegExp of "a";
\* a tag on a tag, a Date of a boolean, the RegExp of "(";
\* and the first two bytes of a three-byte item
Items ==
  { <<1>>, <<28, 255>>, <<29, 1, 0>>, <<32>>, <<97, 97>>, <<130, 1, 2>>, <<161, 97, 97, 1>>,
    <<217>>, <<64>>, <<229, 1>>, <<235, 1>>, <<247, 97, 97>>,
    <<235, 229, 1>>, <<235, 217>>, <<247, 97, 40>>,
    <<130, 1>> }

RECURSIVE Concat(_)
Concat(ss) == IF ss = <<>> THEN <<>> ELSE Head(ss) \o Concat(Tail(ss))

StreamInputs == {Concat(ss) : ss \in Seqs(Items, MaxItems)}

Event(ev, val, er) == [ev |-> ev, val |-> val, er |-> er]
CbCall(er, val) == [er |-> er, val |-> val]

StreamInit ==
  /\ input \in StreamInputs
  /\ rest = input /\ buf = <<>> /\ waits = <<>>
  /\ ticks = <<"getNext">>                \* process.nextTick(getNext)
  /\ events = <<>> /\ thrown = FALSE /\ ended = "open" /\ finished = FALSE
  /\ fired = FALSE /\ cbs = <<>>
  /\ call = Call("stream", Undefined, <<>>, 0, <<>>)
  /\ pc = "stream" /\ out = NoOut /\ dec = NoDec
  /\ RegistryIdle

\* the listeners of exports.unpack
OnMsg(obj) ==
  IF ~fired THEN fired' = TRUE /\ cbs' = Append(cbs, CbCall("", obj))
  ELSE UNCHANGED <<fired, cbs>>

OnError(er) ==
  IF ~fired THEN fired' = TRUE /\ cbs' = Append(cbs, CbCall(er, Undefined))
  ELSE UNCHANGED <<fired, cbs>>

\* the 'finish' listener without its test of fired
OnFinish_Always ==
  fired' = TRUE /\ cbs' = Append(cbs, CbCall("End of file", Undefined))

OnFinish ==
  IF ~fired THEN fired' = TRUE /\ cbs' = Append(cbs, CbCall("End of file", Undefined))
  ELSE UNCHANGED <<fired, cbs>>

\* gotMsg that schedules no getNext after a message
gotMsg_NoNextTick(r, q) ==
  IF r.er # ""
  THEN /\ events' = Append(events, Event("error", Undefined, r.er))
       /\ OnError(r.er)
       /\ ticks' = q
  ELSE /\ events' = Append(events, Event("msg", r.val, ""))
       /\ OnMsg(r.val)
       /\ ticks' = q

\* gotMsg that schedules getNext after an error too
gotMsg_NextTickOnError(r, q) ==
  IF r.er # ""
  THEN /\ events' = Append(events, Event("error", Undefined, r.er))
       /\ OnError(r.er)
       /\ ticks' = Append(q, "getNext")
  ELSE /\ events' = Append(events, Event("msg", r.val, ""))
       /\ OnMsg(r.val)
       /\ ticks' = Append(q, "getNext")

\* gotMsg that schedules getNext twice after a message
gotMsg_TwoNextTicks(r, q) ==
  IF r.er # ""
  THEN /\ events' = Append(events, Event("error", Undefined, r.er))
       /\ OnError(r.er)
       /\ ticks' = q
  ELSE /\ events' = Append(events, Event("msg", r.val, ""))
       /\ OnMsg(r.val)
       /\ ticks' = Append(Append(q, "getNext"), "getNext")

\* gotMsg(er, object), with q the tick queue at the time of the call
gotMsg(r, q) ==
  IF r.er # ""
  THEN /\ events' = Append(events, Event("error", Undefined, r.er))
       /\ OnError(r.er)
       /\ ticks' = q
  ELSE /\ events' = Append(events, Event("msg", r.val, ""))
       /\ OnMsg(r.val)
       /\ ticks' = Append(q, "getNext")

\* how a run r of the parser on the ParseStream's BufferStream ends;
\* ws are the requests queued behind the one that ran
Outcome(r, ws, q) ==
  /\ buf' = r.buf
  /\ CASE r.st = "wait" ->
            /\ waits' = <<r.w>> \o ws
            /\ ticks' = q
            /\ UNCHANGED <<events, thrown, fired, cbs>>
       [] r.st = "cb" ->
            /\ waits' = ws
            /\ gotMsg(r, q)
            /\ UNCHANGED thrown
       [] r.st = "throw" ->
            /\ waits' = ws
            /\ thrown' = TRUE
            /\ ticks' = q
            /\ UNCHANGED <<events, fired, cbs>>

\* getNext: parser.unpack(bs, gotMsg)
GetNext ==
  /\ ~thrown /\ ticks # <<>> /\ Head(ticks) = "getNext"
  /\ IF waits = <<>>
     THEN Outcome(_unpack(buf, <<>>, FALSE), <<>>, Tail(ticks))
     ELSE /\ waits' = Append(waits, Wait(Mag(1), "hdr", 0, 0, FALSE, <<>>))
          /\ ticks' = Tail(ticks)
          /\ UNCHANGED <<buf, events, thrown, fired, cbs>>
  /\ UNCHANGED <<input, rest, ended, finished>> /\ UNCHANGED codecVars /\ UNCHANGED registryVars

\* write(chunk): bs.write appends the chunk and serves the oldest request
Write ==
  /\ ~thrown /\ rest # <<>>
  /\ \E n \in 1..MaxChunk :
       /\ n <= Len(rest)
       /\ rest' = SubSeq(rest, n + 1, Len(rest))
       /\ LET all == buf \o SubSeq(rest, 1, n) IN
          IF waits = <<>>
          THEN buf' = all /\ UNCHANGED <<waits, ticks, events, thrown, fired, cbs>>
          ELSE Outcome(wait(all, Head(waits)), Tail(waits), ticks)
  /\ UNCHANGED <<input, ended, finished>> /\ UNCHANGED codecVars /\ UNCHANGED registryVars

\* the Readable has delivered everything: its 'end' is scheduled
EndOfInput ==
  /\ ~thrown /\ rest = <<>> /\ ended = "open"
  /\ ended' = "ending"
  /\ ticks' = Append(ticks, "end")
  /\ UNCHANGED <<input, rest, buf, waits, events, thrown, finished, fired, cbs>>
  /\ UNCHANGED codecVars /\ UNCHANGED registryVars

\* 'finish' is emitted
EmitFinish ==
  /\ finished' = TRUE
  /\ events' = Append(events, Event("finish", Undefined, ""))
  /\ OnFinish

\* pipe calls end() on the ParseStream; nothing was written through the
\* Writable itself, so 'finish' follows at once or in a tick of its own
End ==
  /\ ~thrown /\ ticks # <<>> /\ Head(ticks) = "end"
  /\ ended' = "ended"
  /\ \/ EmitFinish /\ ticks' = Tail(ticks)
     \/ ticks' = Append(Tail(ticks), "finish") /\ UNCHANGED <<events, finished, fired, cbs>>
  /\ UNCHANGED <<input, rest, buf, waits, thrown>> /\ UNCHANGED codecVars /\ UNCHANGED registryVars

Finish ==
  /\ ~thrown /\ ticks # <<>> /\ Head(ticks) = "finish"
  /\ EmitFinish /\ ticks' = Tail(ticks)
  /\ UNCHANGED <<input, rest, buf, waits, thrown, ended>> /\ UNCHANGED codecVars /\ UNCHANGED registryVars

StreamNext == GetNext \/ Write \/ EndOfInput \/ End \/ Finish

StreamSpec == StreamInit /\ [][StreamNext]_vars

\* ------------------------------------------------------------------------
\* Properties of the codec calls
\* ------------------------------------------------------------------------
\* an integer i with -2^31 <= i <= 2^31 - 1 (the number -0 is not one)
InInt32(x) ==
  /\ x.t = "num" /\ x.k = "fin" /\ x.sh = 0
  /\ IF x.neg THEN x.mag # <<>> /\ MagLE(x.mag, <<128, 0, 0, 0>>)
     ELSE MagLE(x.mag, <<127, 255, 255, 255>>)

\* the completion callback was called with (null, v)
Delivered(v) == dec.st = "cb" /\ dec.er = "" /\ dec.val = v

\* C1: for every integer i in [-2^31, 2^31 - 1], pack(i) succeeds and
\* decoding its bytes with Parser.unpack delivers (no error, i).
C1_IntegerRoundTrip ==
  (call.op = "pack" /\ InInt32(call.obj)) =>
     /\ pc = "packed" => out.ok
     /\ pc = "unpacked" => Delivered(call.obj) /\ dec.tag = Undefined

\* -2^31 has been packed and decoded
C1_Witness ==
  /\ pc = "unpacked" /\ call.op = "pack"
  /\ call.obj = Fin(TRUE, <<128, 0, 0, 0>>, 0)
  /\ out.b = <<62, 127, 255, 255, 255>>

\* the framing table of the specification, for an operand below 2^24 given
\* as an integer and a four-digit operand given by its digits
TableSmall(mt, n) ==
  IF n <= 27 THEN <<mt * 32 + n>>
  ELSE IF n <= 255 THEN <<mt * 32 + 28, n>>
  ELSE IF n <= 65535 THEN <<mt * 32 + 29, n \div 256, n % 256>>
  ELSE <<mt * 32 + 30, 0, n \div 65536, (n \div 256) % 256, n % 256>>

Table(mt, i) ==
  IF Len(i) <= 3 THEN Ok(TableSmall(mt, MagVal(i)))
  ELSE IF Len(i) = 4 /\ i[1] <= 127 THEN Ok(<<mt * 32 + 30>> \o i)
  ELSE Raise("Integer out of range")

\* C2: for every major type 0..5 and operand n, _packInt(n, mt) emits
\* exactly the bytes of the framing table, and fails with 'Integer out of
\* range' from n = 2^31 on.
C2_FramingTable ==
  (call.op = "_packInt" /\ call.mt \in 0..5 /\ pc = "packed") =>
     /\ out = Table(call.mt, call.i)
     /\ call.i = <<128, 0, 0, 0>> => out = Raise("Integer out of range")

\* _packInt has been applied to 2^31 - 1 and to 2^31 under major type 5
C2_Witness ==
  /\ call.op = "_packInt" /\ pc = "packed" /\ call.mt = 5
  /\ call.i = <<127, 255, 255, 255>> /\ out.b = <<190, 127, 255, 255, 255>>

C2_WitnessFail ==
  /\ call.op = "_packInt" /\ pc = "packed" /\ call.mt = 5
  /\ call.i = <<128, 0, 0, 0>> /\ ~out.ok

\* a finite number equal to its integer truncation
IsInteger(x) == x.t = "num" /\ x.k = "fin" /\ x.sh = 0

\* the operand an integer is framed with: n, or -n-1 under major type 1
IntFrame(x) ==
  IF ~x.neg \/ x.mag = <<>> THEN Table(0, x.mag) ELSE Table(1, MagDec(x.mag))

\* 0xdf and the 8-byte big-endian double of x
IsFloatFrame(x) ==
  /\ out.ok /\ Len(out.b) = 9 /\ out.b[1] = 223
  /\ LET back == ReadIEEE(Tail(out.b), 11, 52)
     IN IF x.k = "nan" THEN back.k = "nan" ELSE back = x

\* C3 as stated: every finite integral number is framed as an integer, or
\* fails with 'Integer out of range' when the operand exceeds 0x7fffffff;
\* only non-integral numbers, NaN and the infinities are written as floats.
C3_Original ==
  (call.op = "pack" /\ call.obj.t = "num" /\ pc = "packed") =>
     IF IsInteger(call.obj) THEN out = IntFrame(call.obj) ELSE IsFloatFrame(call.obj)

\* C3, amended: a number is framed as an integer exactly when it equals its
\* 32-bit truncation, that is for the integers of [-2^31, 2^31 - 1] (and
\* -0): under major type 0 with operand n when n >= 0, under major type 1
\* with operand -n-1 when n < 0.  Every other number - an integer outside
\* that range as much as a non-integral number, NaN or an infinity - is
\* written as 0xdf and its 8-byte double, and packing a number never fails.
C3_NumberDispatch ==
  (call.op = "pack" /\ call.obj.t = "num" /\ pc = "packed") =>
     /\ out.ok
     /\ IF InInt32(call.obj) \/ (IsInteger(call.obj) /\ call.obj.mag = <<>>)
        THEN out = IntFrame(call.obj)
        ELSE IsFloatFrame(call.obj)

\* 2^31 has been packed, as a double
C3_Witness ==
  /\ call.op = "pack" /\ pc = "packed"
  /\ call.obj = Fin(FALSE, <<128, 0, 0, 0>>, 0)
  /\ out.b = <<223, 65, 224, 0, 0, 0, 0, 0, 0>>

C3_WitnessMinusOne ==
  /\ call.op = "pack" /\ pc = "packed"
  /\ call.obj = Fin(TRUE, <<1>>, 0) /\ out.b = <<32>>

\* C5: decoding an item in which a tag is immediately followed by another
\* tag delivers the error 'Tag must not follow a tag' and no value; a tag
\* whose inner item is an array or a map holding tagged elements decodes
\* without that error.
C5_TagDepth ==
  (call.op = "unpack" /\ pc = "unpacked") =>
     /\ call.bytes \in TagOnTag =>
          /\ dec.st = "cb" /\ dec.er = "Tag must not follow a tag"
          /\ dec.val = Undefined /\ dec.tag = Undefined
     /\ call.bytes \in TagOnComposite =>
          /\ dec.st # "wait" /\ dec.er # "Tag must not follow a tag"
     /\ call.bytes = <<229, 129, 229, 1>> =>
          Delivered(Arr(<<IntNum(1)>>)) /\ dec.tag = IntNum(5)

\* both cases have been decoded: tag 5 on tag 11, and tag 5 on [tag 5 on 1]
C5_Witness ==
  /\ call.op = "unpack" /\ pc = "unpacked"
  /\ call.bytes = <<229, 235, 1>> /\ dec.er = "Tag must not follow a tag"

C5_WitnessComposite ==
  /\ call.op = "unpack" /\ pc = "unpacked"
  /\ call.bytes = <<229, 129, 229, 1>> /\ dec.er = ""

\* C9: for every byte sequence b, packing b as a Bytes item writes the
\* length of b under major type 2 followed by b, and decoding those bytes
\* delivers a byte sequence of the same length and content.
C9_BytesRoundTrip ==
  (call.op = "pack" /\ call.obj.t = "buf") =>
     /\ pc = "packed" =>
          /\ out.ok
          /\ LET pre == Table(2, Mag(Len(call.obj.d))).b
             IN out.b = pre \o call.obj.d
     /\ pc = "unpacked" =>
          /\ dec.st = "cb" /\ dec.er = "" /\ dec.val.t = "buf"
          /\ Len(dec.val.d) = Len(call.obj.d)
          /\ dec.val.d = call.obj.d
          /\ dec.buf = <<>>

\* a Buffer of 256 bytes has made the round trip
C9_Witness ==
  /\ call.op = "pack" /\ pc = "unpacked" /\ call.obj.t = "buf"
  /\ Len(call.obj.d) = 256 /\ dec.st = "cb"
  /\ SubSeq(out.b, 1, 3) = <<93, 1, 0>>

RECURSIVE DeepEqual(_, _)
\* structural equality: arrays element by element in order, objects as
\* sets of own properties
DeepEqual(a, b) ==
  IF a.t # b.t THEN FALSE
  ELSE CASE a.t = "arr" ->
              /\ Len(a.e) = Len(b.e)
              /\ \A i \in 1..Len(a.e) : DeepEqual(a.e[i], b.e[i])
         [] a.t = "obj" ->
              /\ Len(a.p) = Len(b.p)
              /\ \A i \in 1..Len(a.p) : \E j \in 1..Len(b.p) :
                    a.p[i].key = b.p[j].key /\ DeepEqual(a.p[i].val, b.p[j].val)
         [] OTHER -> a = b

RECURSIVE HasProtoKey(_)
\* some object of the value has an own property named "__proto__"
HasProtoKey(v) ==
  CASE v.t = "arr" -> \E i \in 1..Len(v.e) : HasProtoKey(v.e[i])
    [] v.t = "obj" ->
         \E i \in 1..Len(v.p) : v.p[i].key = PROTO \/ HasProtoKey(v.p[i].val)
    [] OTHER -> FALSE

\* C10: for every value built from in-range integers, text strings,
\* booleans, null, undefined, arrays and string-keyed objects, decoding
\* pack(v) delivers a value structurally equal to v.
C10_CompositeRoundTrip ==
  (call.op = "pack" /\ call.obj \in CompositeInputs) =>
     /\ pc = "packed" => out.ok
     /\ pc = "unpacked" =>
          dec.st = "cb" /\ dec.er = "" /\ DeepEqual(dec.val, call.obj)

\* the same, for the values none of whose objects has a "__proto__" key
C10_WithoutProtoKey ==
  (call.op = "pack" /\ call.obj \in CompositeInputs /\ ~HasProtoKey(call.obj)) =>
     /\ pc = "packed" => out.ok
     /\ pc = "unpacked" =>
          dec.st = "cb" /\ dec.er = "" /\ DeepEqual(dec.val, call.obj)

\* the examples of the specification: [1,2] and {a:1}
C10_Examples ==
  /\ pack(Arr(<<IntNum(1), IntNum(2)>>)) = Ok(<<130, 1, 2>>)
  /\ pack(Obj(<<Prop(<<97>>, IntNum(1))>>)) = Ok(<<161, 97, 97, 1>>)
  /\ unpack(<<130, 1, 2>>, 0).val = Arr(<<IntNum(1), IntNum(2)>>)
  /\ unpack(<<161, 97, 97, 1>>, 0).val = Obj(<<Prop(<<97>>, IntNum(1))>>)

\* ------------------------------------------------------------------------
\* Properties of the stream adapter
\* ------------------------------------------------------------------------
\* decoding a buffer item after item, up to the first item that fails or is
\* incomplete
RECURSIVE DecodeAll(_)
DecodeAll(bytes) ==
  IF bytes = <<>> THEN <<>>
  ELSE LET r == unpack(bytes, 0) IN
       IF r.st = "cb" /\ r.er = "" THEN <<r.val>> \o DecodeAll(r.buf) ELSE <<>>

\* a concatenation of well-formed items
RECURSIVE WellFormed(_)
WellFormed(bytes) ==
  \/ bytes = <<>>
  \/ LET r == unpack(bytes, 0) IN r.st = "cb" /\ r.er = "" /\ WellFormed(r.buf)

MsgEvents == SelectSeq(events, LAMBDA e : e.ev = "msg")
MsgVals == [i \in 1..Len(MsgEvents) |-> MsgEvents[i].val]
Errored == \E i \in 1..Len(events) : events[i].ev = "error"
IsPrefix(a, b) == Len(a) <= Len(b) /\ a = SubSeq(b, 1, Len(a))
Pending(f) == \E i \in 1..Len(ticks) : ticks[i] = f
\* every byte is written and no decode is scheduled
Quiescent == rest = <<>> /\ ~Pending("getNext")

\* C4: for a concatenation of well-formed items, however the bytes are split
\* into writes, the values of the 'msg' events are at every moment the first
\* items of the one-shot decoding of the whole buffer, no 'error' is emitted,
\* and once every byte is written and no decode is scheduled they are all of
\* its items, in order and in number
C4_StreamingEqualsOneShot ==
  WellFormed(input) =>
    /\ IsPrefix(MsgVals, DecodeAll(input))
    /\ ~Errored /\ ~thrown
    /\ Quiescent => MsgVals = DecodeAll(input)

\* the array [1,2] and the map {a:1} have both arrived, in that order
C4_Witness ==
  /\ input = <<130, 1, 2, 161, 97, 97, 1>> /\ Quiescent
  /\ Len(MsgVals) = 2 /\ MsgVals[1].t = "arr" /\ MsgVals[2].t = "obj"
  /\ MsgVals = DecodeAll(input)

\* a write has ended in the middle of the second item, inside its map
C4_WitnessMidItem ==
  /\ WellFormed(input) /\ Len(MsgVals) = 1 /\ rest # <<>>
  /\ waits # <<>> /\ Head(waits).stk # <<>>

\* C6: no exception leaves unpack or a wait continuation: every decode
\* failure arrives in the error slot of the completion callback
C6_NoSynchronousThrow == thrown = FALSE

\* what the completion callback of exports.unpack gets for an event
CbOf(e) ==
  CASE e.ev = "msg" -> CbCall("", e.val)
    [] e.ev = "error" -> CbCall(e.er, Undefined)
    [] e.ev = "finish" -> CbCall("End of file", Undefined)

\* C7: the completion callback of exports.unpack over a Readable is called at
\* most once, and once by the time the stream has finished; what it gets is
\* what the first event of the stream carries, and it gets "End of file"
\* exactly when the stream finishes before a first item or error, which
\* happens only for a first item that is incomplete
C7_CallbackOnce ==
  /\ Len(cbs) <= 1
  /\ fired <=> cbs # <<>>
  /\ finished => Len(cbs) = 1
  /\ cbs # <<>> <=> events # <<>>
  /\ cbs # <<>> => cbs[1] = CbOf(events[1])
  /\ (cbs # <<>> /\ cbs[1].er = "End of file") =>
       finished /\ unpack(input, 0).st = "wait"

\* the callback got the first item; a second item and 'finish' came later
C7_Witness ==
  /\ finished /\ Len(events) = 3 /\ Len(MsgVals) = 2
  /\ cbs = <<CbCall("", MsgVals[1])>>

\* the stream ended inside its first item
C7_WitnessEOF ==
  /\ finished /\ input = <<130, 1>>
  /\ cbs = <<CbCall("End of file", Undefined)>>

\* C8: the 'msg' events are the successfully decoded items, one each; after
\* an 'error' event no decode is scheduled or waiting for bytes, and no
\* 'msg' and no second 'error' follows it
C8_StopsOnError ==
  /\ IsPrefix(MsgVals, DecodeAll(input))
  /\ Quiescent /\ ~thrown => MsgVals = DecodeAll(input)
  /\ Errored => ~Pending("getNext") /\ waits = <<>>
  /\ \A i, j \in 1..Len(events) :
       (i < j /\ events[i].ev = "error") => events[j].ev \notin {"msg", "error"}

\* a Date of a boolean has failed and the bytes of the array [1,2], written
\* with it or after it, stay undecoded to the end of the stream
C8_Witness ==
  /\ input = <<235, 217, 130, 1, 2>> /\ rest = <<>> /\ finished
  /\ events[1] = Event("error", Undefined, "Unsupported date type: boolean")
  /\ buf = <<130, 1, 2>>

\* an item was delivered before the error
C8_WitnessMsgThenError ==
  /\ Len(events) >= 2 /\ events[1].ev = "msg" /\ events[2].ev = "error"
  /\ rest = <<>>

\* ------------------------------------------------------------------------
\* Unknown tags
\* ------------------------------------------------------------------------
\* the value the completion callback gets for the bytes b
ValueOf(b) == unpack(b, 0).val

C11_WitnessNested ==
  /\ call.op = "unpack" /\ pc = "unpacked" /\ call.bytes = <<129, 229, 1>>
  /\ Delivered(Arr(<<IntNum(1)>>)) /\ dec.tag = Undefined

\* ------------------------------------------------------------------------
\* Map decoding
\* ------------------------------------------------------------------------
\* the calls that decode a map written pair by pair
MapCall == call.op = "unpack" /\ call.obj.t = "pairs" /\ pc = "unpacked"
NameOf(k) == ToPropertyKey(ValueOf(k))
\* the last pair of ps whose key names the same entry as the key of pair i
LastOf(ps, i) ==
  CHOOSE j \in i..Len(ps) :
    /\ NameOf(ps[j].k) = NameOf(ps[i].k)
    /\ \A l \in (j + 1)..Len(ps) : NameOf(ps[l].k) # NameOf(ps[i].k)
Has(obj, name, val) == \E n \in 1..Len(obj.p) : obj.p[n] = Prop(name, val)

\* the result holds, for every pair, an entry with the value of the last
\* pair of that key, and no other entry; the bytes after the pairs stay
MapResult(ps) ==
  /\ dec.st = "cb" /\ dec.er = "" /\ dec.val.t = "obj"
  /\ \A i \in 1..Len(ps) :
       Has(dec.val, NameOf(ps[i].k), ValueOf(ps[LastOf(ps, i)].v))
  /\ Len(dec.val.p) = Cardinality({NameOf(ps[i].k) : i \in 1..Len(ps)})
  /\ \E tr \in Trails : dec.buf = tr /\ call.bytes = SubSeq(call.bytes, 1, Len(call.bytes) - Len(tr)) \o tr
                        /\ Len(call.bytes) - Len(tr) = Len(PairBytes(ps)) + (IF call.bytes[1] = 188 THEN 2 ELSE 1)

\* C12: a map item with operand num decodes exactly num key/value pairs,
\* key first, into one associative result that holds every key with the
\* value of its last occurrence
C12_MapDecode == MapCall => MapResult(call.obj.p)

\* the same for maps none of whose keys is "__proto__"
C12_WithoutProtoKey ==
  (MapCall /\ \A i \in 1..Len(call.obj.p) : call.obj.p[i].k # <<105>> \o PROTO)
    => MapResult(call.obj.p)

\* the map a:1, b:2, a:"a" has been decoded to {a:"a", b:2}
C12_Examples ==
  /\ MapCall
  /\ Len(call.obj.p) = 3
  /\ dec.val = Obj(<<Prop(<<97>>, Str(<<97>>)), Prop(<<98>>, IntNum(2))>>)

\* ------------------------------------------------------------------------
\* The type-pack registry
\* ------------------------------------------------------------------------
Front(s) == SubSeq(s, 1, Len(s) - 1)
Last(s) == s[Len(s)]
HasType(r, type) == \E i \in 1..Len(r) : r[i].type = type

\* the registry the calls h must leave: each call replaces the entry of its
\* type where it stands, or adds an entry at the end
RECURSIVE Registered(_)
Registered(h) ==
  IF h = <<>> THEN semanticTypes
  ELSE LET r == Registered(Front(h))
           e == Last(h)
       IN IF HasType(r, e.type)
          THEN [i \in 1..Len(r) |-> IF r[i].type = e.type THEN e ELSE r[i]]
          ELSE r \o <<e>>

\* the types in registration order: the defaults, then each new type at its
\* first registration
RECURSIVE NewTypes(_)
NewTypes(h) ==
  IF h = <<>> THEN <<>>
  ELSE LET n == NewTypes(Front(h))
           ty == Last(h).type
       IN IF HasType(semanticTypes, ty) \/ \E i \in 1..Len(n) : n[i] = ty
          THEN n ELSE Append(n, ty)
TypeOrder(h) == [i \in 1..Len(semanticTypes) |-> semanticTypes[i].type] \o NewTypes(h)

\* the packer last registered for a type
LatestPacker(h, ty) ==
  LET at == {i \in 1..Len(h) : h[i].type = ty} IN
  IF at # {} THEN h[CHOOSE i \in at : \A j \in at : i >= j].fun
  ELSE semanticTypes[CHOOSE i \in 1..Len(semanticTypes) : semanticTypes[i].type = ty].fun

\* the packer an object must get: that of the first type in registration
\* order it is an instance of, "" for the generic map encoding
ExpectedPacker(h, obj) ==
  LET o == TypeOrder(h)
      m == {i \in 1..Len(o) : instanceof(obj, o[i])}
  IN IF m = {} THEN "" ELSE LatestPacker(h, o[CHOOSE i \in m : \A j \in m : i <= j])

C13_State ==
  /\ reg = Registered(hist)
  /\ hist # <<>> =>
       LET prev == Registered(Front(hist))
           at   == {i \in 1..Len(prev) : prev[i].type = Last(hist).type}
       IN IF at # {} THEN \A i \in at : old = prev[i].fun ELSE old = "null"
  /\ (pc = "packed" /\ typeof(call.obj) = "object") =>
       /\ invoked = ExpectedPacker(hist, call.obj)
       /\ invoked \in UserPackers => out = UserPack(invoked, reg, call.obj)
       /\ invoked = "" => out.ok /\ out.b[1] = 160 + Len(call.obj.p)

C13_Step ==
  hist' # hist =>
    /\ \A i \in 1..Len(reg) :
         /\ reg'[i].type = reg[i].type
         /\ reg[i].type # Last(hist').type => reg'[i] = reg[i]
    /\ IF HasType(reg, Last(hist').type)
       THEN Len(reg') = Len(reg)
       ELSE reg' = Append(reg, Last(hist')) /\ old' = "null"

\* C13: addSemanticType(type, f) returns the packer registered before and
\* replaces it in place when the type is registered, and returns null and
\* appends (type, f) otherwise; the other entries keep their order; pack
\* runs the packer of the first entry in registration order whose type
\* matches the object, and the generic map encoding only when none matches
C13_TypeRegistry == []C13_State /\ [][C13_Step]_vars

\* Object was registered before Foo, so a Foo is packed by Object's packer
C13_Witness ==
  /\ hist = <<[type |-> "Object", fun |-> "f1"], [type |-> "Foo", fun |-> "f2"]>>
  /\ pc = "packed" /\ call.obj.t = "foo" /\ invoked = "f1" /\ out.b = <<193>>

\* the packer of Array was replaced where it stood and the old one returned
C13_WitnessReplace ==
  /\ hist = <<[type |-> "Array", fun |-> "f2"]>> /\ old = "_packArray"
  /\ reg[1] = [type |-> "Array", fun |-> "f2"] /\ Len(reg) = 6
  /\ pc = "packed" /\ call.obj = Arr(<<IntNum(1)>>) /\ invoked = "f2"

\* ------------------------------------------------------------------------
\* Simple values
\* ------------------------------------------------------------------------
\* the integers 0..255 (and -0) as numbers
IsSmallInt(x) ==
  x.t = "num" /\ x.k = "fin" /\ x.sh = 0 /\ MagLE(x.mag, <<255>>)
  /\ (x.neg => x.mag = <<>>)

\* the Simples inside a value
RECURSIVE SimplesIn(_)
SimplesIn(v) ==
  CASE v.t = "simple" -> {v}
    [] v.t = "arr" -> UNION {SimplesIn(v.e[i]) : i \in 1..Len(v.e)}
    [] v.t = "obj" -> UNION {SimplesIn(v.p[i].val) : i \in 1..Len(v.p)}
    [] OTHER -> {}

\* C14: new Unallocated(num) succeeds exactly for the integers 0..255 and
\* then carries num; every Simple the parser delivers carries an integer in
\* 0..255, and the parser's construction of a Simple from a byte sequence of
\* major type 6 never throws
C14_SimpleRange ==
  /\ (call.op = "Unallocated" /\ pc = "constructed") =>
       /\ out.ok <=> IsSmallInt(call.obj)
       /\ out.ok => out.val = [t |-> "simple", u |-> MagVal(call.obj.mag)]
       /\ out.ok => out.val.u \in 0..255
  /\ (call.op = "unpack" /\ pc = "unpacked" /\ dec.st = "cb") =>
       \A s \in SimplesIn(dec.val) : s.u \in 0..255
  /\ (call.op = "unpack" /\ pc = "unpacked" /\ call.bytes \in Mt6Inputs) =>
       /\ dec.st = "cb" /\ dec.er = ""
       /\ LET ai == call.bytes[1] % 32 IN
          /\ ai <= 23 => dec.val = [t |-> "simple", u |-> ai]
          /\ ai = 28 => dec.val = [t |-> "simple", u |-> call.bytes[2]]
          /\ ai \in 24..27 \/ ai > 28 => dec.val.t # "simple"

\* 256 was refused
C14_Witness ==
  /\ call.op = "Unallocated" /\ pc = "constructed"
  /\ call.obj = IntNum(256) /\ ~out.ok
  /\ out.er = "num must be a small positive integer"

\* the parser built the Simple 255 from dc ff
C14_WitnessParsed ==
  /\ call.op = "unpack" /\ pc = "unpacked" /\ call.bytes = <<220, 255>>
  /\ Delivered([t |-> "simple", u |-> 255])

\* ------------------------------------------------------------------------
\* Half-precision numbers
\* ------------------------------------------------------------------------
\* n / 2^k in lowest terms: numerator and exponent of the denominator
RECURSIVE Reduce(_, _)
Reduce(n, k) ==
  IF k > 0 /\ n % 2 = 0 THEN Reduce(n \div 2, k - 1) ELSE [n |-> n, k |-> k]

\* the value of sign s, exponent e, mantissa m
HalfValue(s, e, m) ==
  LET neg == s = 1 IN
  IF e = 31 THEN (IF m = 0 THEN Infinity(neg) ELSE NaN)
  ELSE IF e = 0
  THEN IF m = 0 THEN Fin(neg, <<>>, 0)
       ELSE LET r == Reduce(m, 24) IN Fin(neg, Mag(r.n), r.k)     \* m * 2^-24
  ELSE IF e >= 25 THEN Fin(neg, Mag((1024 + m) * Pow2(e - 25)), 0)
  ELSE LET r == Reduce(1024 + m, 25 - e) IN Fin(neg, Mag(r.n), r.k)

HalfCall == call.op = "unpack" /\ pc = "unpacked" /\ call.bytes \in HalfInputs

\* C15: the 16-bit pattern with sign s, exponent e and mantissa m decodes to
\* s * 2^-24 * m when e = 0, to the signed infinity when e = 31 and m = 0,
\* to NaN when e = 31 and m # 0, and to s * 2^(e-25) * (1024 + m) otherwise;
\* 3c00 is 1, c000 is -2, 7bff is 65504, 0400 is 2^-14, 0000 is 0, 7c00 and
\* fc00 are the infinities
C15_HalfDecode ==
  HalfCall =>
    LET hi == call.bytes[2]
        lo == call.bytes[3]
    IN /\ Delivered(HalfValue(hi \div 128, (hi % 128) \div 4, (hi % 4) * 256 + lo))
       /\ call.bytes = <<221, 60, 0>> => dec.val = IntNum(1)
       /\ call.bytes = <<221, 192, 0>> => dec.val = IntNum(-2)
       /\ call.bytes = <<221, 123, 255>> => dec.val = IntNum(65504)
       /\ call.bytes = <<221, 4, 0>> => dec.val = Fin(FALSE, <<1>>, 14)
       /\ call.bytes = <<221, 0, 0>> => dec.val = Fin(FALSE, <<>>, 0)
       /\ call.bytes = <<221, 124, 0>> => dec.val = Infinity(FALSE)
       /\ call.bytes = <<221, 252, 0>> => dec.val = Infinity(TRUE)

\* 7bff has been decoded to 65504
C15_Witness ==
  /\ HalfCall /\ call.bytes = <<221, 123, 255>> /\ Delivered(IntNum(65504))

\* the subnormal 0x8003 has been decoded to -3 * 2^-24
C15_WitnessSubnormal ==
  /\ HalfCall /\ call.bytes = <<221, 128, 3>> /\ Delivered(Fin(TRUE, <<3>>, 24))

\* ------------------------------------------------------------------------
\* C16  Callback at most once
\* ------------------------------------------------------------------------
\* a Parser.unpack call, on a raw Buffer or on a BufferStream that is
\* being written to, has run
Unpacking == pc \in {"unpacked", "feeding", "fed"}

\* C16: whatever the input, its chunking and its nesting, one Parser.unpack
\* call invokes its completion callback at most once; when a nested item
\* fails the callback gets the error alone (no value, no tag), the bytes
\* after the failure stay undecoded, and the outcome after the last chunk
\* is the outcome of decoding the same bytes in one piece.
C16_CallbackAtMostOnce ==
  /\ dec.n <= 1
  /\ (dec.st = "cb" /\ dec.er # "") => (dec.val = Undefined /\ dec.tag = Undefined)
  /\ (Unpacking /\ call.obj.t = "fail" /\ dec.st = "cb") =>
        (dec.er # "" /\ dec.buf \o rest = call.obj.post)
  /\ (pc = "fed") => (dec = unpack(call.bytes, 0))

\* [[Date(true), 1]] has arrived in chunks and the callback was called
\* once, with the error, the 1 still buffered
C16_Witness ==
  /\ pc = "fed" /\ call.bytes = <<129, 130, 235, 217, 1>>
  /\ dec.st = "cb" /\ dec.n = 1 /\ dec.er = "Unsupported date type: boolean"
  /\ dec.buf = <<1>>

\* the same failure reported while later chunks are still to come
C16_WitnessEarly ==
  /\ pc = "feeding" /\ call.obj.t = "fail" /\ dec.st = "cb" /\ dec.er # ""
  /\ rest # <<>>

\* ------------------------------------------------------------------------
\* C17  Exact consumption
\* ------------------------------------------------------------------------
\* the length of the first item of b, and of the first k items of b, read
\* off the framing: the initial byte, the operand bytes its low five bits
\* ask for, then the payload or the nested items
RECURSIVE ItemLen(_)
RECURSIVE ItemsLen(_, _)
ItemLen(b) ==
  LET mt == b[1] \div 32
      ai == b[1] % 32
      nop == IF ai < 28 THEN 0 ELSE Pow2(ai - 28)
      num == IF ai < 28 THEN ai ELSE MagVal(StripZeros(SubSeq(b, 2, 1 + nop)))
      body == SubSeq(b, 2 + nop, Len(b))
  IN 1 + nop + CASE mt \in {0, 1, 6} -> 0
                 [] mt \in {2, 3} -> num
                 [] mt = 4 -> ItemsLen(body, num)
                 [] mt = 5 -> ItemsLen(body, 2 * num)
                 [] mt = 7 -> ItemsLen(body, 1)
ItemsLen(b, k) ==
  IF k = 0 THEN 0
  ELSE LET n == ItemLen(b) IN n + ItemsLen(SubSeq(b, n + 1, Len(b)), k - 1)

\* the bytes the parser was given
Given == IF call.op = "pack" THEN out.b ELSE slice(call.bytes, call.offset)

\* C17: a successful Parser.unpack takes from the front of the buffer the
\* bytes of one top-level item (initial byte, operand bytes, payload and
\* nested items) and no more: what follows the item is still buffered, in
\* order.
C17_ExactConsumption ==
  (pc \in {"unpacked", "fed"} /\ dec.st = "cb" /\ dec.er = "") =>
     dec.buf = SubSeq(Given, ItemLen(Given) + 1, Len(Given))

\* {a: 1, b: [1, 2]} followed by 07 a1: the two bytes are left, and the
\* next unpack call reads the 7 from them
C17_Witness ==
  /\ pc = "unpacked" /\ call.bytes = <<162, 97, 97, 1, 97, 98, 130, 1, 2, 7, 161>>
  /\ dec.st = "cb" /\ dec.er = "" /\ dec.buf = <<7, 161>>
  /\ unpack(dec.buf, 0).val = IntNum(7) /\ unpack(dec.buf, 0).buf = <<161>>

\* an integer with eight operand bytes followed by a text string
C17_WitnessOperands ==
  /\ pc = "unpacked" /\ call.bytes = <<31, 0, 0, 0, 1, 0, 0, 0, 0, 98, 97, 98>>
  /\ dec.st = "cb" /\ dec.er = "" /\ dec.buf = <<98, 97, 98>>

\* ------------------------------------------------------------------------
\* C18  Completion on raw input
\* ------------------------------------------------------------------------
\* Parser.unpack on a raw Buffer has returned.  The BufferStream it wrapped
\* the bytes in is known to nobody else, so nothing is written to it later
\* and a wait left pending in it is never served.
RawReturned == pc = "unpacked"

\* C18: every Parser.unpack on a raw byte sequence, whatever its content
\* and offset, invokes the completion callback with a value or an error,
\* also when the bytes end before the item does.
C18_CompletionOnRaw == RawReturned => (dec.st = "cb" /\ dec.n = 1)

\* what holds instead: the callback is invoked exactly when the bytes from
\* the offset on hold one whole item that raises no exception; cut short,
\* the call returns with a wait pending and the callback uncalled
C18_CompleteInput ==
  RawReturned =>
    /\ dec.st \in {"cb", "wait", "throw"}
    /\ (dec.st = "wait") => (dec.n = 0 /\ ~MagLE(dec.w.n, Mag(Len(dec.buf))))
    /\ (dec.st = "cb") => (dec.n = 1)

\* [1, ...] cut after its first element: no callback
C18_Truncated ==
  /\ RawReturned /\ call.bytes = <<130, 1>> /\ call.offset = 0
  /\ dec.st = "wait" /\ dec.n = 0

\* an offset past the end leaves nothing to read: no callback
C18_OffsetPastEnd ==
  /\ RawReturned /\ call.bytes = <<1>> /\ call.offset = 5
  /\ dec.st = "wait" /\ dec.n = 0

\* offset 1 of 07 82 01 02 decodes [1, 2]
C18_OffsetInside ==
  /\ RawReturned /\ call.bytes = <<7, 130, 1, 2>> /\ call.offset = 1
  /\ dec.st = "cb" /\ dec.val = Arr(<<IntNum(1), IntNum(2)>>)

\* ------------------------------------------------------------------------
\* C19  Single outstanding decode
\* ------------------------------------------------------------------------
\* the getNext calls scheduled in a tick queue
Scheduled(q) == Len(SelectSeq(q, LAMBDA x : x = "getNext"))

\* top-level decodes pending on the BufferStream or about to be started
C19_State == Len(waits) + Scheduled(ticks) <= 1

\* a getNext is scheduled only in the step that emits a 'msg'
C19_Step ==
  (Scheduled(ticks') > Scheduled(ticks)) =>
     /\ Len(events') = Len(events) + 1
     /\ events'[Len(events')].ev = "msg"
     /\ waits' = <<>>

\* C19: in every reachable state of a ParseStream, whatever the order of
\* writes and ticks, at most one top-level Parser.unpack is pending on its
\* BufferStream or scheduled, and a getNext is scheduled only by the step
\* that delivers the 'msg' of the previous decode.
C19_SingleDecode == []C19_State /\ [][C19_Step]_vars

\* a second decode is pending in the middle of its item after the first
\* delivered its 'msg'
C19_Witness ==
  /\ pc = "stream" /\ Len(MsgEvents) = 1 /\ Len(waits) = 1
  /\ waits[1].kind # "hdr" /\ Scheduled(ticks) = 0

\* the next decode is scheduled while bytes of the next item are already
\* buffered
C19_WitnessScheduled ==
  /\ pc = "stream" /\ Len(MsgEvents) = 1 /\ waits = <<>>
  /\ Scheduled(ticks) = 1 /\ buf # <<>>

\* ------------------------------------------------------------------------
\* C20  Simple round trip
\* ------------------------------------------------------------------------
\* pack(new Unallocated(v)) has been decoded again
SimpleTrip == pc = "unpacked" /\ call.op = "pack" /\ call.obj.t = "simple"

\* C20: for every integer v in 0..255, decoding the bytes produced by
\* packing Simple(v) delivers a Simple carrying v, never a boolean, null,
\* undefined or a float.
C20_SimpleRoundTrip ==
  SimpleTrip => (dec.st = "cb" /\ dec.er = "" /\ dec.val = call.obj)

\* what the code does: the round trip holds for v in 0..23 and 28..255;
\* Simple(24..27) is written as the single byte d8..db, which decodes to
\* false, true, null, undefined
C20_OutsideReserved ==
  SimpleTrip =>
    /\ dec.st = "cb" /\ dec.er = ""
    /\ call.obj.u \notin 24..27 => dec.val = call.obj
    /\ call.obj.u = 24 => (out.b = <<216>> /\ dec.val = Bool(FALSE))
    /\ call.obj.u = 25 => (out.b = <<217>> /\ dec.val = Bool(TRUE))
    /\ call.obj.u = 26 => (out.b = <<218>> /\ dec.val = Null)
    /\ call.obj.u = 27 => (out.b = <<219>> /\ dec.val = Undefined)

\* Simple(24) packed to d8 and decoded to false
C20_Simple24 ==
  /\ SimpleTrip /\ call.obj.u = 24 /\ out.b = <<216>> /\ dec.val = Bool(FALSE)

\* Simple(255) packed to dc ff and decoded to Simple(255)
C20_Simple255 ==
  /\ SimpleTrip /\ call.obj.u = 255 /\ out.b = <<220, 255>> /\ dec.val = call.obj

\* ------------------------------------------------------------------------
\* C21  Encoder and decoder agree on tags
\* ------------------------------------------------------------------------
\* pack(d) for a Date, pack(r) for a RegExp, has been decoded again
DateTrip == pc = "unpacked" /\ call.op = "pack" /\ call.obj.t = "date"
RegExpTrip == pc = "unpacked" /\ call.op = "pack" /\ call.obj.t = "regexp"

\* the time value is a whole number of seconds in [-2^31, 2^31 - 1]
WholeSecond32(d) ==
  /\ d.ms.k = "fin" /\ RemDigits(d.ms.mag, 1000, 0) = 0
  /\ LET q == StripZeros(DivDigits(d.ms.mag, 1000, 0))
     IN IF d.ms.neg THEN MagLE(q, <<128, 0, 0, 0>>) ELSE MagLE(q, <<127, 255, 255, 255>>)

\* the parser reads the byte as major type 7 with tag number n, for which
\* its registry holds the decoder fun
ReadAsTag(byte, n, fun) ==
  byte \div 32 = 7 /\ byte % 32 = n /\ TagDecoder(Mag(n)) = fun

\* the strings of this model hold BMP code units only, so every surrogate
\* code unit in them is unpaired
Unpaired(s) == \E i \in 1..Len(s) : s[i] >= 55296 /\ s[i] <= 57343

DateAgrees ==
  DateTrip =>
    /\ out.ok /\ Head(out.b) = 235 /\ ReadAsTag(Head(out.b), 11, "_unpackDate")
    /\ WholeSecond32(call.obj) =>
         (dec.st = "cb" /\ dec.er = "" /\ dec.tag = Undefined /\ dec.val = call.obj)

RegExpPrefix ==
  RegExpTrip =>
    (out.ok /\ Head(out.b) = 247 /\ ReadAsTag(Head(out.b), 23, "_unpackRegex"))

C21_WitnessNegative ==
  /\ DateTrip /\ call.obj = DateAt(Fin(TRUE, <<128, 0, 0, 0>>, 0))
  /\ out.b = <<235, 62, 127, 255, 255, 255>>
  /\ dec.st = "cb" /\ dec.val = call.obj

\* /(a)/: f7 63 28 61 29, decoded to a RegExp with the source (a)
C21_WitnessRegExp ==
  /\ RegExpTrip /\ call.obj.src = <<40, 97, 41>>
  /\ out.b = <<247, 99, 40, 97, 41>>
  /\ dec.st = "cb" /\ dec.val = [t |-> "regexp", src |-> <<40, 97, 41>>]

\* new RegExp("\ud800"): f7 63 ef bf bd, decoded to the source U+FFFD
C21_WitnessSurrogate ==
  /\ RegExpTrip /\ call.obj.src = <<55296>>
  /\ out.b = <<247, 99, 239, 191, 189>>
  /\ dec.st = "cb" /\ dec.val.src = <<65533>>

\* between two seconds the instant can move: the Date at 1001 ms is
\* written as the double 1.001 and comes back at 1000 ms
C21_WitnessSubSecond ==
  /\ DateTrip /\ call.obj = NewDate(IntNum(1001))
  /\ out.b = <<235, 223, 63, 240, 4, 24, 147, 116, 188, 106>>
  /\ dec.st = "cb" /\ dec.val = NewDate(IntNum(1000))

====
